---- MODULE Spec2Model ----
(***************************************************************************)
(* Model of the PII pipeline of korostelevm/pareto:                        *)
(*   - the per-document scan with its chunk deduplicator                   *)
(*     (src/src/services/pii-scanner.service.ts, scanFileForPII),          *)
(*   - the record the extraction workflow builds from a scan               *)
(*     (extractPIIWorkflow),                                               *)
(*   - the resolution engine                                               *)
(*     (src/src/services/pii-resolution.service.ts, PIIResolutionService). *)
(*                                                                         *)
(* Strings are sequences of one-character strings, so that toLowerCase,    *)
(* trim, includes and concatenation are computed, not assumed.             *)
(***************************************************************************)
EXTENDS Integers, Sequences, FiniteSets, TLC

VARIABLES
    \* ---- scanFileForPII / extractPIIWorkflow, one document
    family,        \* which family of oracle answers the document draws from
    numChunks,     \* chunks.length
    chunkIdx,      \* the loop variable i of scanFileForPII
    allResults,    \* allResults: the extraction results of the chunks that succeeded
    uniquePII,     \* uniquePII: Map<string, PIICandidate>, in insertion order
    oracleLog,     \* what the oracle answered for chunk 0, 1, ... (a result or a failure)
    scanResult,    \* the value scanFileForPII returned
    record,        \* the IndividualRecord the workflow built from scanResult
    scanPc,        \* position of the document's processing
    \* ---- PIIResolutionService
    calls,         \* the loadFromExtractionResults calls the caller will make, in order
    loadCount,     \* how many of them have been made
    occurrences,   \* this.occurrences
    records,       \* this.records
    loadOptions,   \* the options of the most recent loadFromExtractionResults
    resolved,      \* outcome of the most recent resolve(): none, an error, or a result
    \* ---- chunkFileContent, one call
    content,           \* the argument content
    chunkSize,         \* the argument chunkSize
    overlapPercentage, \* the argument overlapPercentage
    overlapSize,       \* const overlapSize
    stepSize,          \* const stepSize
    startIndex,        \* let startIndex
    chunkIndex,        \* let chunkIndex
    chunks,            \* const chunks
    chunkPc,           \* position of the call: called, loop, break, returned or thrown
    \* ---- extractPIIWorkflow, the loop over the documents
    numDocs,           \* txtFiles.length
    docIdx,            \* the loop variable i of extractPIIWorkflow
    docLog,            \* what scanFileForPII did for document 0, 1, ...: a result or a throw
    wfResults,         \* const results: IndividualRecord[] of extractPIIWorkflow
    totalPIIFound,     \* let totalPIIFound
    workflowResult,    \* const workflowResult
    workflowPc         \* position of the workflow: idle, looping, returned or thrown

scanVars == <<family, numChunks, chunkIdx, allResults, uniquePII, oracleLog,
              scanResult, record, scanPc>>
engineVars == <<calls, loadCount, occurrences, records, loadOptions, resolved>>
chunkVars == <<content, chunkSize, overlapPercentage, overlapSize, stepSize,
               startIndex, chunkIndex, chunks, chunkPc>>
workflowVars == <<numDocs, docIdx, docLog, wfResults, totalPIIFound, workflowResult, workflowPc>>
vars == <<scanVars, engineVars, chunkVars, workflowVars>>

----------------------------------------------------------------------------
(* Bounds *)

\* chunks of the scanned document
MaxChunks == 2
\* documents of the samples directory
MaxDocs == 2
\* candidates the oracle reports for one document of the workflow
MaxDocCands == 2
\* candidates the oracle reports for one document, over all its chunks
MaxCands == 3
\* records of a corpus
MaxFiles == 2
\* candidates of a corpus, over all its records
MaxOcc == 2
\* Type labels attached to one value in a corpus of the "severity" family
MaxTypes == 3
\* Non-empty values under one type label in a corpus of the "severity" family
MaxValues == 4
\* Candidates with the empty string as value in a corpus of the "severity" family
MaxEmpty == 2
\* loadFromExtractionResults calls made on one engine
MaxLoads == 2
\* characters of the text given to chunkFileContent
MaxLen == 6
\* chunkSize given to chunkFileContent
MaxChunkSize == 4

----------------------------------------------------------------------------
(* Strings *)

\* An absent optional field (undefined). No real string contains this element.
Undefined == <<"undefined">>

UpperChars == <<"A","B","C","D","E","F","G","H","I","J","K","L","M",
                "N","O","P","Q","R","S","T","U","V","W","X","Y","Z">>
LowerChars == <<"a","b","c","d","e","f","g","h","i","j","k","l","m",
                "n","o","p","q","r","s","t","u","v","w","x","y","z">>

ToLowerChar(c) ==
    IF \E i \in DOMAIN UpperChars : UpperChars[i] = c
    THEN LowerChars[CHOOSE i \in DOMAIN UpperChars : UpperChars[i] = c]
    ELSE c

\* String.prototype.toLowerCase
ToLowerCase(s) == [i \in DOMAIN s |-> ToLowerChar(s[i])]

WhiteSpace == {" ", "\t", "\n"}

\* String.prototype.trim
Trim(s) ==
    IF \A i \in DOMAIN s : s[i] \in WhiteSpace
    THEN << >>
    ELSE LET first == CHOOSE i \in DOMAIN s :
                          /\ s[i] \notin WhiteSpace
                          /\ \A j \in 1..(i-1) : s[j] \in WhiteSpace
             last  == CHOOSE i \in DOMAIN s :
                          /\ s[i] \notin WhiteSpace
                          /\ \A j \in (i+1)..Len(s) : s[j] \in WhiteSpace
         IN  SubSeq(s, first, last)

\* String.prototype.includes
Includes(s, sub) ==
    \E i \in 1..(Len(s) - Len(sub) + 1) : SubSeq(s, i, i + Len(sub) - 1) = sub

\* JavaScript truthiness of an optional string: undefined and "" are falsy
Truthy(s) == s # Undefined /\ s # << >>

Digits == <<"0","1","2","3","4","5","6","7","8","9">>
Digit(k) == Digits[k + 1]

\* All sequences over S of length at most n
RECURSIVE SeqsUpTo(_, _)
SeqsUpTo(S, n) ==
    IF n = 0 THEN { << >> }
    ELSE LET shorter == SeqsUpTo(S, n - 1)
         IN  shorter \cup { Append(q, x) : q \in { r \in shorter : Len(r) = n - 1 }, x \in S }

----------------------------------------------------------------------------
(* Chunk deduplicator: the Map uniquePII and the forEach of scanFileForPII *)

Cand(v, t, c, x) == [value |-> v, pii_type |-> t, confidence |-> c, context |-> x]

\* const key = `${candidate.value.toLowerCase()}_${candidate.pii_type}`
DedupKey(candidate) == ToLowerCase(candidate.value) \o <<"_">> \o candidate.pii_type

\* Map.prototype.has
MapHas(m, k) == \E i \in DOMAIN m : m[i].key = k

\* Map.prototype.get
MapGet(m, k) == m[CHOOSE i \in DOMAIN m : m[i].key = k].val

\* Mutant of MapSet: an existing key is deleted and set again, so it moves last
MapSet_MoveToEnd(m, k, v) ==
    LET kept == { i \in DOMAIN m : m[i].key # k }
        Rest[n \in 0..Len(m)] ==
            IF n = 0 THEN << >>
            ELSE IF n \in kept THEN Append(Rest[n - 1], m[n]) ELSE Rest[n - 1]
    IN  Append(Rest[Len(m)], [key |-> k, val |-> v])

\* Map.prototype.set: a new key goes last, an existing key keeps its position
MapSet(m, k, v) ==
    IF MapHas(m, k)
    THEN [i \in DOMAIN m |-> IF m[i].key = k THEN [key |-> k, val |-> v] ELSE m[i]]
    ELSE Append(m, [key |-> k, val |-> v])

\* Array.from(map.values())
MapValues(m) == [i \in DOMAIN m |-> m[i].val]

\* Mutant of DedupCandidate: the confidence test is dropped, the last one seen wins
DedupCandidate_LastWins(m, candidate) == MapSet(m, DedupKey(candidate), candidate)

\* Mutant of DedupCandidate: a candidate replaces a stored one of lower confidence
DedupCandidate_BestWins(m, candidate) ==
    LET key  == DedupKey(candidate)
        rank == [low |-> 0, medium |-> 1, high |-> 2]
    IN  IF ~MapHas(m, key) \/ rank[candidate.confidence] > rank[MapGet(m, key).confidence]
        THEN MapSet(m, key, candidate)
        ELSE m

\* The body of the forEach callback, lines 103-106
DedupCandidate(m, candidate) ==
    LET key == DedupKey(candidate)
    IN  IF ~MapHas(m, key) \/ candidate.confidence = "high"
        THEN MapSet(m, key, candidate)
        ELSE m

\* result.pii_candidates.forEach(...), lines 101-108
RECURSIVE DedupCandidates(_, _)
DedupCandidates(m, cands) ==
    IF cands = << >> THEN m
    ELSE DedupCandidates(DedupCandidate(m, Head(cands)), Tail(cands))

----------------------------------------------------------------------------
(* The extraction oracle: what extractSchemaFromText may answer for a chunk *)

S_SSN == <<"S","S","N">>
S_DOB == <<"D","O","B">>
S_ctx == <<"k">>

\* Candidates of the "dedup" family: one key reported in two spellings and at
\* every confidence, and a second key
DedupPool ==
    { Cand(<<"X">>, S_SSN, "low", Undefined),
      Cand(<<"x">>, S_SSN, "high", S_ctx),
      Cand(<<"X">>, S_SSN, "medium", S_ctx),
      Cand(<<"X">>, S_SSN, "high", Undefined),
      Cand(<<"x">>, S_DOB, "medium", Undefined) }

\* Candidates of the "collision" family: a value and a label that each hold the
\* "_" the key is joined with
CollisionPool ==
    { Cand(<<"a","_","b">>, <<"c">>, "medium", Undefined),
      Cand(<<"a">>, <<"b","_","c">>, "medium", Undefined) }

ExtractionResult(n, a, p, cands) ==
    [name |-> n, address |-> a, phone |-> p, pii_candidates |-> cands]

Families == {"dedup", "collision", "identity"}

\* PIIExtractionSchema: name, address and phone are optional strings.
\* `room` is how many more candidates the document may still report.
OracleResults(fam, room) ==
    IF fam = "dedup"
    THEN { ExtractionResult(Undefined, Undefined, Undefined, cands) :
               cands \in SeqsUpTo(DedupPool, room) }
    ELSE IF fam = "collision"
    THEN { ExtractionResult(Undefined, Undefined, Undefined, cands) :
               cands \in SeqsUpTo(CollisionPool, room) }
    ELSE { ExtractionResult(n, a, p, << >>) :
               n \in {Undefined, << >>, <<"A","l">>, <<"B","o">>},
               a \in {Undefined, <<"R","d">>},
               p \in {Undefined, << >>, <<"5","5">>} }

\* Every candidate of a list of extraction results, in arrival order
RECURSIVE Arrivals(_)
Arrivals(results) ==
    IF results = << >> THEN << >>
    ELSE Head(results).pii_candidates \o Arrivals(Tail(results))

\* The oracle call threw (ExtractionError / SchemaValidationError)
OracleFailure == [failed |-> TRUE, result |-> ExtractionResult(Undefined, Undefined, Undefined, << >>)]
OracleAnswer(r) == [failed |-> FALSE, result |-> r]

----------------------------------------------------------------------------
(* scanFileForPII, and the record extractPIIWorkflow builds from it *)

NoScanResult ==
    [chunks_scanned |-> 0, total_pii_found |-> 0, results |-> << >>, combined_pii |-> << >>]

FilePath == <<"d","/","f">>
FileName == <<"f">>

NoRecord ==
    [file_name |-> << >>, file_path |-> << >>, name |-> Undefined, address |-> Undefined,
     phone |-> Undefined, pii_candidates |-> << >>]

\* One iteration of the for loop whose oracle call returned `result`:
\* lines 92-108 (allResults.push, then the forEach)
ChunkExtracted(result) ==
    /\ scanPc = "scanning"
    /\ chunkIdx < numChunks
    /\ allResults' = Append(allResults, result)
    /\ uniquePII' = DedupCandidates(uniquePII, result.pii_candidates)
    /\ oracleLog' = Append(oracleLog, OracleAnswer(result))
    /\ chunkIdx' = chunkIdx + 1
    /\ UNCHANGED <<family, numChunks, scanResult, record, scanPc>>

\* Mutant of ChunkFailed: the chunk's error is rethrown and ends the scan
ChunkFailed_Abort ==
    /\ scanPc = "scanning"
    /\ chunkIdx < numChunks
    /\ oracleLog' = Append(oracleLog, OracleFailure)
    /\ scanPc' = "failed"
    /\ UNCHANGED <<family, numChunks, chunkIdx, allResults, uniquePII, scanResult, record>>

\* One iteration whose oracle call threw: the catch of lines 111-114
ChunkFailed ==
    /\ scanPc = "scanning"
    /\ chunkIdx < numChunks
    /\ oracleLog' = Append(oracleLog, OracleFailure)
    /\ chunkIdx' = chunkIdx + 1
    /\ UNCHANGED <<family, numChunks, allResults, uniquePII, scanResult, record, scanPc>>

\* After the loop: lines 117-129
ScanReturn ==
    /\ scanPc = "scanning"
    /\ chunkIdx = numChunks
    /\ LET combinedPII == MapValues(uniquePII)
       IN  scanResult' = [chunks_scanned |-> numChunks,
                          total_pii_found |-> Len(combinedPII),
                          results |-> allResults,
                          combined_pii |-> combinedPII]
    /\ scanPc' = "returned"
    /\ UNCHANGED <<family, numChunks, chunkIdx, allResults, uniquePII, oracleLog, record>>

\* ...(name && { name }): the field is set only for a truthy value
SpreadIfTruthy(s) == IF Truthy(s) THEN s ELSE Undefined

\* Mutant of RecordOf: each field is taken from the first result that has it
RecordOf_PerField(piiScanResult) ==
    LET First(f) ==
            IF \E i \in DOMAIN piiScanResult.results : Truthy(piiScanResult.results[i][f])
            THEN piiScanResult.results[CHOOSE i \in DOMAIN piiScanResult.results :
                     /\ Truthy(piiScanResult.results[i][f])
                     /\ \A j \in 1..(i-1) : ~Truthy(piiScanResult.results[j][f])][f]
            ELSE Undefined
    IN  [file_name |-> FileName,
         file_path |-> FilePath,
         name |-> First("name"),
         address |-> First("address"),
         phone |-> First("phone"),
         pii_candidates |-> piiScanResult.combined_pii]

\* extractPIIWorkflow lines 42-62, on the value scanFileForPII returned
RecordOf(piiScanResult) ==
    LET hasFirst == Len(piiScanResult.results) > 0
        name     == IF hasFirst THEN piiScanResult.results[1].name ELSE Undefined
        address  == IF hasFirst THEN piiScanResult.results[1].address ELSE Undefined
        phone    == IF hasFirst THEN piiScanResult.results[1].phone ELSE Undefined
    IN  [file_name |-> FileName,
         file_path |-> FilePath,
         name |-> SpreadIfTruthy(name),
         address |-> SpreadIfTruthy(address),
         phone |-> SpreadIfTruthy(phone),
         pii_candidates |-> piiScanResult.combined_pii]

BuildRecord ==
    /\ scanPc = "returned"
    /\ record' = RecordOf(scanResult)
    /\ scanPc' = "recorded"
    /\ UNCHANGED <<family, numChunks, chunkIdx, allResults, uniquePII, oracleLog, scanResult>>

----------------------------------------------------------------------------
(* extractPIIWorkflow: the loop over the documents of the samples directory *)

\* Candidates the documents of the workflow report
WorkflowPool ==
    { Cand(<<"X">>, S_SSN, "low", Undefined),
      Cand(<<"y">>, S_DOB, "medium", Undefined) }

\* What the oracle may answer for the one chunk of a document of the workflow
WorkflowAnswers ==
    {OracleFailure} \cup
    { OracleAnswer(ExtractionResult(n, Undefined, Undefined, cands)) :
          n \in {Undefined, <<"A","l">>}, cands \in SeqsUpTo(WorkflowPool, MaxDocCands) }

\* The oracle answers of the chunks that succeeded, as extraction results
RECURSIVE AnsweredResults(_)
AnsweredResults(log) ==
    IF log = << >> THEN << >>
    ELSE IF Head(log).failed THEN AnsweredResults(Tail(log))
    ELSE <<Head(log).result>> \o AnsweredResults(Tail(log))

\* The value scanFileForPII returns when the oracle answers its chunks with `log`
ScanFileForPII(log) ==
    LET allResults_ == AnsweredResults(log)
        combinedPII == MapValues(DedupCandidates(<< >>, Arrivals(allResults_)))
    IN  [chunks_scanned |-> Len(log),
         total_pii_found |-> Len(combinedPII),
         results |-> allResults_,
         combined_pii |-> combinedPII]

\* scanFileForPII threw (readFileContent or chunkFileContent failed)
ScanThrew == [threw |-> TRUE, piiScanResult |-> NoScanResult]
ScanReturned(r) == [threw |-> FALSE, piiScanResult |-> r]

\* What scanFileForPII may do for one document of the workflow
DocScans == { ScanFileForPII(log) : log \in {<< >>} \cup { <<a>> : a \in WorkflowAnswers } }

\* txtFiles[i].path and its last segment
DocName(i) == <<"f", Digit(i)>>
DocPath(i) == <<"d", "/">> \o DocName(i)

\* Lines 42-62 for document i
DocRecord(i, piiScanResult) ==
    [RecordOf(piiScanResult) EXCEPT !.file_name = DocName(i), !.file_path = DocPath(i)]

NoWorkflowResult == [total_files_processed |-> 0, total_pii_found |-> 0, files |-> << >>]

\* Lines 23-25: no .txt file in the samples directory
NoFiles ==
    /\ workflowPc = "looping"
    /\ numDocs = 0
    /\ workflowPc' = "thrown"
    /\ UNCHANGED <<numDocs, docIdx, docLog, wfResults, totalPIIFound, workflowResult>>

\* One iteration of the loop whose scan returned: the try body, lines 38-67
DocScanned(piiScanResult) ==
    /\ workflowPc = "looping"
    /\ docIdx < numDocs
    /\ docLog' = Append(docLog, ScanReturned(piiScanResult))
    /\ wfResults' = Append(wfResults, DocRecord(docIdx, piiScanResult))
    /\ totalPIIFound' = totalPIIFound + piiScanResult.total_pii_found
    /\ docIdx' = docIdx + 1
    /\ UNCHANGED <<numDocs, workflowResult, workflowPc>>

\* Mutant of DocFailed: the error of one document ends the loop
DocFailed_Abort ==
    /\ workflowPc = "looping"
    /\ docIdx < numDocs
    /\ docLog' = Append(docLog, ScanThrew)
    /\ docIdx' = numDocs
    /\ UNCHANGED <<numDocs, wfResults, totalPIIFound, workflowResult, workflowPc>>

\* One iteration whose scan threw: the catch of lines 68-70
DocFailed ==
    /\ workflowPc = "looping"
    /\ docIdx < numDocs
    /\ docLog' = Append(docLog, ScanThrew)
    /\ docIdx' = docIdx + 1
    /\ UNCHANGED <<numDocs, wfResults, totalPIIFound, workflowResult, workflowPc>>

\* After the loop: lines 74-79
WorkflowReturn ==
    /\ workflowPc = "looping"
    /\ numDocs > 0
    /\ docIdx = numDocs
    /\ workflowResult' = [total_files_processed |-> Len(wfResults),
                          total_pii_found |-> totalPIIFound,
                          files |-> wfResults]
    /\ workflowPc' = "returned"
    /\ UNCHANGED <<numDocs, docIdx, docLog, wfResults, totalPIIFound>>

\* extractPIIWorkflow has not been started
WorkflowIdle ==
    /\ numDocs = 0
    /\ docIdx = 0
    /\ docLog = << >>
    /\ wfResults = << >>
    /\ totalPIIFound = 0
    /\ workflowResult = NoWorkflowResult
    /\ workflowPc = "idle"

----------------------------------------------------------------------------
(* PIIResolutionService: ingestion *)

\* private normalizeValue: value.trim().toLowerCase()
NormalizeValue(value) == ToLowerCase(Trim(value))

S_name == <<"n","a","m","e">>
S_address == <<"a","d","d","r","e","s","s">>
S_phone == <<"p","h","o","n","e">>

\* The identityTypes array of isIdentityType
IdentityTypes ==
    << S_name,
       <<"c","u","s","t","o","m","e","r"," ">> \o S_name,
       <<"s","u","b","s","c","r","i","b","e","r"," ">> \o S_name,
       <<"e","m","p","l","o","y","e","e"," ">> \o S_name,
       S_address,
       <<"h","o","m","e"," ">> \o S_address,
       <<"m","a","i","l","i","n","g"," ">> \o S_address,
       <<"b","i","l","l","i","n","g"," ">> \o S_address,
       <<"s","e","r","v","i","c","e"," ">> \o S_address,
       S_phone,
       S_phone \o <<" ","n","u","m","b","e","r">>,
       <<"t","e","l","e","p","h","o","n","e">>,
       <<"c","o","n","t","a","c","t"," ">> \o S_phone >>

\* Mutant of IsIdentityType: the label is not lowercased before the search
IsIdentityType_CaseSensitive(piiType) ==
    \E i \in DOMAIN IdentityTypes : Includes(piiType, IdentityTypes[i])

\* private isIdentityType
IsIdentityType(piiType) ==
    LET normalizedType == ToLowerCase(piiType)
    IN  \E i \in DOMAIN IdentityTypes : Includes(normalizedType, IdentityTypes[i])

\* const confidenceOrder = { low: 0, medium: 1, high: 2 }
ConfidenceOrder(c) == CASE c = "low" -> 0 [] c = "medium" -> 1 [] c = "high" -> 2

\* file.name ? this.normalizeValue(file.name) : null   (null is modelled by Undefined)
NormalizedIdentity(field) == IF Truthy(field) THEN NormalizeValue(field) ELSE Undefined

\* Mutant of Ingested: a candidate at min_confidence itself is dropped too
Ingested_MinExclusive(file, candidate, options) ==
    LET normalizedName    == NormalizedIdentity(file.name)
        normalizedAddress == NormalizedIdentity(file.address)
        normalizedPhone   == NormalizedIdentity(file.phone)
        candidateValue    == IF options.normalize_values
                             THEN NormalizeValue(candidate.value)
                             ELSE candidate.value
    IN  /\ ~IsIdentityType(candidate.pii_type)
        /\ ~ \/ (Truthy(normalizedName) /\ candidateValue = normalizedName)
             \/ (Truthy(normalizedAddress) /\ candidateValue = normalizedAddress)
             \/ (Truthy(normalizedPhone) /\ candidateValue = normalizedPhone)
        /\ ~(options.ambiguous_only /\ candidate.confidence = "high")
        /\ ~ /\ options.min_confidence # "unset"
             /\ ConfidenceOrder(candidate.confidence) <= ConfidenceOrder(options.min_confidence)

\* Lines 256-292: does the loop body reach this.occurrences.push for `candidate` of `file`?
Ingested(file, candidate, options) ==
    LET normalizedName    == NormalizedIdentity(file.name)
        normalizedAddress == NormalizedIdentity(file.address)
        normalizedPhone   == NormalizedIdentity(file.phone)
        candidateValue    == IF options.normalize_values
                             THEN NormalizeValue(candidate.value)
                             ELSE candidate.value
    IN  /\ ~IsIdentityType(candidate.pii_type)
        /\ ~ \/ (Truthy(normalizedName) /\ candidateValue = normalizedName)
             \/ (Truthy(normalizedAddress) /\ candidateValue = normalizedAddress)
             \/ (Truthy(normalizedPhone) /\ candidateValue = normalizedPhone)
        /\ ~(options.ambiguous_only /\ candidate.confidence = "high")
        /\ ~ /\ options.min_confidence # "unset"
             /\ ConfidenceOrder(candidate.confidence) < ConfidenceOrder(options.min_confidence)

Occurrence(candidate, file) ==
    [candidate |-> candidate, file_name |-> file.file_name, file_path |-> file.file_path]

\* The inner loop over file.pii_candidates, appending to `occs`
RECURSIVE IngestCandidates(_, _, _, _)
IngestCandidates(occs, file, cands, options) ==
    IF cands = << >> THEN occs
    ELSE IngestCandidates(
             IF Ingested(file, Head(cands), options)
             THEN Append(occs, Occurrence(Head(cands), file))
             ELSE occs,
             file, Tail(cands), options)

\* The outer loop over results.files, appending to `occs`
RECURSIVE IngestFiles(_, _, _)
IngestFiles(occs, files, options) ==
    IF files = << >> THEN occs
    ELSE IngestFiles(IngestCandidates(occs, Head(files), Head(files).pii_candidates, options),
                     Tail(files), options)

----------------------------------------------------------------------------
(* PIIResolutionService: grouping *)

\* Array.prototype.includes
ArrayIncludes(arr, x) == \E i \in DOMAIN arr : arr[i] = x

\* if (!arr.includes(x)) arr.push(x)
PushIfAbsent(arr, x) == IF ArrayIncludes(arr, x) THEN arr ELSE Append(arr, x)

ZeroBreakdown == [high |-> 0, medium |-> 0, low |-> 0]

\* if (candidate.context) { all_contexts.push; if (!contexts.includes) contexts.push }
WithContext(group, candidate) ==
    IF Truthy(candidate.context)
    THEN [group EXCEPT !.all_contexts = Append(@, candidate.context),
                       !.contexts = PushIfAbsent(@, candidate.context)]
    ELSE group

\* Mutant of ValueKey: the normalized key is lowercased but not trimmed
ValueKey_NoTrim(value, options) ==
    IF options.normalize_values THEN ToLowerCase(value) ELSE value

\* The grouping key of a value: normalized exactly when normalize_values is set
ValueKey(value, options) ==
    IF options.normalize_values THEN NormalizeValue(value) ELSE value

NewValueGroup(value) ==
    [value |-> value, pii_types |-> << >>, contexts |-> << >>, all_contexts |-> << >>,
     confidence_breakdown |-> ZeroBreakdown, occurrences |-> 0, files |-> << >>,
     occurrences_detail |-> << >>, is_ambiguous |-> FALSE, has_type_conflict |-> FALSE]

\* Mutant of AddType: the includes test is missing
AddType_NoDedup(piiTypes, piiType) == Append(piiTypes, piiType)

\* groupByValue lines 528-531
AddType(piiTypes, piiType) == PushIfAbsent(piiTypes, piiType)

\* Mutant of ValueGroupStep: occurrences is incremented only for a file new to the group
ValueGroupStep_CountFiles(valueMap, occurrence, options) ==
    LET candidate == occurrence.candidate
        key    == ValueKey(candidate.value, options)
        map1   == IF ~MapHas(valueMap, key)
                  THEN MapSet(valueMap, key, NewValueGroup(candidate.value))
                  ELSE valueMap
        group  == MapGet(map1, key)
        group1 == [group EXCEPT !.pii_types = AddType(@, candidate.pii_type)]
        group2 == WithContext(group1, candidate)
        group3 == [group2 EXCEPT
                      !.confidence_breakdown[candidate.confidence] = @ + 1,
                      !.files = PushIfAbsent(@, occurrence.file_name),
                      !.occurrences_detail = Append(@, occurrence),
                      !.occurrences = Len(PushIfAbsent(group2.files, occurrence.file_name))]
    IN  MapSet(map1, key, group3)

\* groupByValue lines 505-552: one iteration of the loop over this.occurrences
ValueGroupStep(valueMap, occurrence, options) ==
    LET candidate == occurrence.candidate
        key    == ValueKey(candidate.value, options)
        map1   == IF ~MapHas(valueMap, key)
                  THEN MapSet(valueMap, key, NewValueGroup(candidate.value))
                  ELSE valueMap
        group  == MapGet(map1, key)
        group1 == [group EXCEPT !.pii_types = AddType(@, candidate.pii_type)]
        group2 == WithContext(group1, candidate)
        group3 == [group2 EXCEPT
                      !.confidence_breakdown[candidate.confidence] = @ + 1,
                      !.files = PushIfAbsent(@, occurrence.file_name),
                      !.occurrences_detail = Append(@, occurrence),
                      !.occurrences = @ + 1]
    IN  MapSet(map1, key, group3)

\* Mutant of ValueGroupFlags: is_ambiguous forgets the medium count
ValueGroupFlags_LowOnly(group) ==
    [group EXCEPT
        !.is_ambiguous = \/ Len(group.pii_types) > 1
                         \/ group.confidence_breakdown.low > 0,
        !.has_type_conflict = Len(group.pii_types) > 1]

\* groupByValue lines 555-562: the post-processing of one group
ValueGroupFlags(group) ==
    [group EXCEPT
        !.is_ambiguous = \/ Len(group.pii_types) > 1
                         \/ group.confidence_breakdown.medium > 0
                         \/ group.confidence_breakdown.low > 0,
        !.has_type_conflict = Len(group.pii_types) > 1]

\* private groupByValue
GroupByValue(occs, options) ==
    LET Pass[n \in 0..Len(occs)] ==
            IF n = 0 THEN << >> ELSE ValueGroupStep(Pass[n - 1], occs[n], options)
        valueMap == Pass[Len(occs)]
    IN  [i \in DOMAIN valueMap |->
            [key |-> valueMap[i].key, val |-> ValueGroupFlags(valueMap[i].val)]]

NewTypeGroup(type) ==
    [pii_type |-> type, values |-> << >>, contexts |-> << >>, all_contexts |-> << >>,
     confidence_breakdown |-> ZeroBreakdown, occurrences |-> 0, files |-> << >>,
     occurrences_detail |-> << >>, is_ambiguous |-> FALSE, has_value_conflict |-> FALSE,
     unique_value_count |-> 0]

\* groupByType lines 595-609. find returns the stored element, and
\* !existingValue is also true when the element found is the empty string
AddValue(values, value, options) ==
    LET valueKey == ValueKey(value, options)
        Matches(v) == IF options.normalize_values
                      THEN NormalizeValue(v) = valueKey
                      ELSE v = value
        found == \E i \in DOMAIN values : Matches(values[i])
        existingValue ==
            IF found
            THEN values[CHOOSE i \in DOMAIN values :
                            /\ Matches(values[i])
                            /\ \A j \in 1..(i-1) : ~Matches(values[j])]
            ELSE Undefined
    IN  IF ~Truthy(existingValue) THEN Append(values, value) ELSE values

\* groupByType lines 573-629: one iteration of the loop over this.occurrences
TypeGroupStep(typeMap, occurrence, options) ==
    LET candidate == occurrence.candidate
        type   == candidate.pii_type
        map1   == IF ~MapHas(typeMap, type)
                  THEN MapSet(typeMap, type, NewTypeGroup(type))
                  ELSE typeMap
        group  == MapGet(map1, type)
        group1 == [group EXCEPT !.values = AddValue(@, candidate.value, options)]
        group2 == WithContext(group1, candidate)
        group3 == [group2 EXCEPT
                      !.confidence_breakdown[candidate.confidence] = @ + 1,
                      !.files = PushIfAbsent(@, occurrence.file_name),
                      !.occurrences_detail = Append(@, occurrence),
                      !.occurrences = @ + 1]
    IN  MapSet(map1, type, group3)

\* Mutant of TypeGroupFlags: unique_value_count counts occurrences, not values
TypeGroupFlags_CountOccurrences(group) ==
    [group EXCEPT
        !.unique_value_count = group.occurrences,
        !.is_ambiguous = \/ Len(group.values) > 1
                         \/ group.confidence_breakdown.medium > 0
                         \/ group.confidence_breakdown.low > 0,
        !.has_value_conflict = Len(group.values) > 1]

\* groupByType lines 633-641: the post-processing of one group
TypeGroupFlags(group) ==
    [group EXCEPT
        !.unique_value_count = Len(group.values),
        !.is_ambiguous = \/ Len(group.values) > 1
                         \/ group.confidence_breakdown.medium > 0
                         \/ group.confidence_breakdown.low > 0,
        !.has_value_conflict = Len(group.values) > 1]

\* private groupByType
GroupByType(occs, options) ==
    LET Pass[n \in 0..Len(occs)] ==
            IF n = 0 THEN << >> ELSE TypeGroupStep(Pass[n - 1], occs[n], options)
        typeMap == Pass[Len(occs)]
    IN  [i \in DOMAIN typeMap |->
            [key |-> typeMap[i].key, val |-> TypeGroupFlags(typeMap[i].val)]]

\* Mutant of IdentityStep: the key is never normalized
IdentityStep_RawKey(identityMap, rec, field, options) ==
    IF Truthy(rec[field])
    THEN LET key   == rec[field]
             map1  == IF ~MapHas(identityMap, key)
                      THEN MapSet(identityMap, key,
                                  [value |-> rec[field], field |-> field, files |-> << >>, count |-> 0])
                      ELSE identityMap
             group == MapGet(map1, key)
         IN  MapSet(map1, key,
                    [group EXCEPT
                        !.files = Append(@, [file_name |-> rec.file_name, file_path |-> rec.file_path]),
                        !.count = @ + 1])
    ELSE identityMap

\* groupByIdentity: the block for one field of one record (lines 423-443, 446-466, 469-489)
IdentityStep(identityMap, rec, field, options) ==
    IF Truthy(rec[field])
    THEN LET key   == ValueKey(rec[field], options)
             map1  == IF ~MapHas(identityMap, key)
                      THEN MapSet(identityMap, key,
                                  [value |-> rec[field], field |-> field, files |-> << >>, count |-> 0])
                      ELSE identityMap
             group == MapGet(map1, key)
         IN  MapSet(map1, key,
                    [group EXCEPT
                        !.files = Append(@, [file_name |-> rec.file_name, file_path |-> rec.file_path]),
                        !.count = @ + 1])
    ELSE identityMap

\* The loop over this.records, for one field
RECURSIVE IdentityPass(_, _, _, _)
IdentityPass(identityMap, recs, field, options) ==
    IF recs = << >> THEN identityMap
    ELSE IdentityPass(IdentityStep(identityMap, Head(recs), field, options),
                      Tail(recs), field, options)

\* private groupByIdentity
GroupByIdentity(recs, options) ==
    [name    |-> IdentityPass(<< >>, recs, "name", options),
     address |-> IdentityPass(<< >>, recs, "address", options),
     phone   |-> IdentityPass(<< >>, recs, "phone", options)]

----------------------------------------------------------------------------
(* PIIResolutionService: schema, conflicts, resolve *)

\* Characters in UTF-16 code unit order, as Array.prototype.sort compares them
CodeUnitOrder ==
    <<"\t", "\n", " ", "/", "0","1","2","3","4","5","6","7","8","9">> \o UpperChars \o <<"_">> \o LowerChars

CharCode(c) == CHOOSE i \in DOMAIN CodeUnitOrder : CodeUnitOrder[i] = c

\* a < b as strings
StrLess(a, b) ==
    \E k \in 1..(Len(b)) :
        /\ \A j \in 1..(k-1) : j <= Len(a) /\ a[j] = b[j]
        /\ \/ k = Len(a) + 1
           \/ k <= Len(a) /\ CharCode(a[k]) < CharCode(b[k])

\* Array.from(set).sort()
RECURSIVE SortStrings(_)
SortStrings(S) ==
    IF S = {} THEN << >>
    ELSE LET least == CHOOSE x \in S : \A y \in S \ {x} : StrLess(x, y)
         IN  <<least>> \o SortStrings(S \ {least})

Elements(arr) == { arr[i] : i \in DOMAIN arr }

\* Mutant of RelatedTypes: the types related to a related type are related too
RelatedTypes_Transitive(occs, piiType) ==
    LET valueGroups == GroupByValue(occs, [normalize_values |-> TRUE, ambiguous_only |-> FALSE,
                                           include_high_confidence_in_conflicts |-> FALSE])
        Together(a, b) == \E i \in DOMAIN valueGroups :
                              /\ ArrayIncludes(valueGroups[i].val.pii_types, a)
                              /\ ArrayIncludes(valueGroups[i].val.pii_types, b)
                              /\ a # b
        all == UNION { Elements(valueGroups[i].val.pii_types) : i \in DOMAIN valueGroups }
    IN  { type2 \in all \ {piiType} :
            \/ Together(piiType, type2)
            \/ \E mid \in all : Together(piiType, mid) /\ Together(mid, type2) }

\* buildUnifiedSchema lines 371-387: the types related to piiType
RelatedTypes(occs, piiType) ==
    LET valueGroups == GroupByValue(occs, [normalize_values |-> TRUE, ambiguous_only |-> FALSE,
                                           include_high_confidence_in_conflicts |-> FALSE])
    IN  { type2 \in UNION { Elements(valueGroups[i].val.pii_types) : i \in DOMAIN valueGroups } :
            \E i \in DOMAIN valueGroups :
                /\ Len(valueGroups[i].val.pii_types) > 1
                /\ ArrayIncludes(valueGroups[i].val.pii_types, piiType)
                /\ ArrayIncludes(valueGroups[i].val.pii_types, type2)
                /\ piiType # type2 }

\* buildUnifiedSchema lines 391-403: the entry of one type group
SchemaEntry(occs, piiType, group) ==
    LET relatedTypes == RelatedTypes(occs, piiType)
        variations   == IF Cardinality(relatedTypes) > 0
                        THEN SortStrings(relatedTypes)
                        ELSE <<piiType>>
    IN  [canonical_type |-> piiType,
         variations |-> IF Len(variations) > 1 THEN variations ELSE <<piiType>>,
         total_occurrences |-> group.occurrences,
         unique_values_count |-> group.unique_value_count,
         confidence_breakdown |-> group.confidence_breakdown,
         files |-> group.files]

\* private buildUnifiedSchema
BuildUnifiedSchema(occs, typeGroups) ==
    [i \in DOMAIN typeGroups |->
        [key |-> typeGroups[i].key,
         val |-> SchemaEntry(occs, typeGroups[i].key, typeGroups[i].val)]]

\* arr.filter(Keep).map(Make)
SelectMap(arr, Keep(_), Make(_)) ==
    LET kept == SelectSeq(arr, Keep)
    IN  [i \in DOMAIN kept |-> Make(kept[i])]

\* Mutant of ValueTypeMismatch: two types already give severity high
ValueTypeMismatch_HighFromTwo(group) ==
    [conflict_type |-> "value_type_mismatch",
     value |-> group.value,
     pii_type |-> Undefined,
     files |-> group.files,
     severity |-> IF Len(group.pii_types) >= 2 THEN "high" ELSE "medium",
     occurrences |-> group.occurrences_detail]

\* identifyConflicts lines 656-667 (the description text is not modelled)
ValueTypeMismatch(group) ==
    [conflict_type |-> "value_type_mismatch",
     value |-> group.value,
     pii_type |-> Undefined,
     files |-> group.files,
     severity |-> IF Len(group.pii_types) > 2 THEN "high" ELSE "medium",
     occurrences |-> group.occurrences_detail]

\* identifyConflicts lines 670-681
TypeValueMismatch(group) ==
    [conflict_type |-> "type_value_mismatch",
     value |-> Undefined,
     pii_type |-> group.pii_type,
     files |-> group.files,
     severity |-> IF Len(group.values) > 3 THEN "high" ELSE "medium",
     occurrences |-> group.occurrences_detail]

\* identifyConflicts lines 684-696
ConfidenceIssue(occurrence) ==
    [conflict_type |-> "confidence_issue",
     value |-> occurrence.candidate.value,
     pii_type |-> occurrence.candidate.pii_type,
     files |-> <<occurrence.file_name>>,
     severity |-> "low",
     occurrences |-> <<occurrence>>]

\* Mutant of IdentifyConflicts: medium occurrences raise a confidence_issue too
IdentifyConflicts_MediumToo(occs, valueGroups, typeGroups) ==
    LET HasTypeConflict(e) == e.val.has_type_conflict
        HasValueConflict(e) == e.val.has_value_conflict
        IsLow(o) == o.candidate.confidence \in {"low", "medium"}
        OfValueGroup(e) == ValueTypeMismatch(e.val)
        OfTypeGroup(e) == TypeValueMismatch(e.val)
    IN  SelectMap(valueGroups, HasTypeConflict, OfValueGroup)
        \o SelectMap(typeGroups, HasValueConflict, OfTypeGroup)
        \o SelectMap(occs, IsLow, ConfidenceIssue)

\* private identifyConflicts
IdentifyConflicts(occs, valueGroups, typeGroups) ==
    LET HasTypeConflict(e) == e.val.has_type_conflict
        HasValueConflict(e) == e.val.has_value_conflict
        IsLow(o) == o.candidate.confidence = "low"
        OfValueGroup(e) == ValueTypeMismatch(e.val)
        OfTypeGroup(e) == TypeValueMismatch(e.val)
    IN  SelectMap(valueGroups, HasTypeConflict, OfValueGroup)
        \o SelectMap(typeGroups, HasValueConflict, OfTypeGroup)
        \o SelectMap(occs, IsLow, ConfidenceIssue)

\* resolve() lines 316-350, for an engine that holds records
ResolutionResult(occs, recs, options) ==
    LET identityGroups == GroupByIdentity(recs, options)
        valueGroups    == GroupByValue(occs, options)
        typeGroups     == GroupByType(occs, options)
        unifiedSchema  == BuildUnifiedSchema(occs, typeGroups)
        conflicts      == IdentifyConflicts(occs, valueGroups, typeGroups)
        HasTypeConflict(e) == e.val.has_type_conflict
        HasValueConflict(e) == e.val.has_value_conflict
    IN  [value_groups |-> valueGroups,
         type_groups |-> typeGroups,
         identity_groups |-> identityGroups,
         unified_schema |-> unifiedSchema,
         conflicts |-> conflicts,
         summary |-> [total_ambiguous_candidates |-> Len(occs),
                      total_value_groups |-> Len(valueGroups),
                      total_type_groups |-> Len(typeGroups),
                      value_conflicts_count |-> Len(SelectSeq(valueGroups, HasTypeConflict)),
                      type_conflicts_count |-> Len(SelectSeq(typeGroups, HasValueConflict)),
                      total_conflicts |-> Len(conflicts),
                      total_unified_types |-> Len(unifiedSchema)],
         options |-> options]

----------------------------------------------------------------------------
(* The callers of PIIResolutionService: corpora, options and call scripts *)

S_Ab == <<"A","b">>
S_ab == <<" ","a","b">>
S_cd == <<"c","d">>
S_Tax == <<"T","a","x">>
S_Id == <<"I","d">>
S_Name == <<"N","a","m","e">>
S_Al == <<"A","l">>
S_al == <<"a","l"," ">>
S_55 == <<"5","5">>
S_m == <<"m">>

\* Candidates of the "groups" family: two spellings of one value and a second
\* value, two ordinary type labels and an identity label, every confidence
GroupPool ==
    { Cand(S_Ab, S_SSN, "high", S_ctx),
      Cand(S_Ab, S_SSN, "low", Undefined),
      Cand(S_ab, S_SSN, "medium", S_ctx),
      Cand(S_Ab, S_Tax, "high", Undefined),
      Cand(S_ab, S_Tax, "low", S_m),
      Cand(S_cd, S_SSN, "high", Undefined),
      Cand(S_cd, S_Tax, "medium", S_ctx),
      Cand(S_Ab, S_Name, "high", Undefined) }

\* Candidates of the "identity" family: values that are a record's own name or phone
IdentityPool ==
    { Cand(S_Al, S_Id, "high", Undefined),
      Cand(S_55, S_Id, "low", S_ctx) }

\* Candidates of the "filters" family: one value and type at every confidence
FilterPool ==
    { Cand(S_cd, S_SSN, "high", Undefined),
      Cand(S_cd, S_SSN, "medium", Undefined),
      Cand(S_cd, S_SSN, "low", Undefined) }

\* Candidates of the "reload" family
ReloadPool ==
    { Cand(S_Ab, S_SSN, "low", Undefined),
      Cand(S_cd, S_Tax, "high", S_ctx) }

FileShape(n, a, p, cands) == [name |-> n, address |-> a, phone |-> p, cands |-> cands]

Min(a, b) == IF a < b THEN a ELSE b

\* One record of a family, holding at most `room` candidates
FileShapes(fam, room) ==
    CASE fam = "groups" ->
           { FileShape(Undefined, Undefined, Undefined, cands) :
                 cands \in SeqsUpTo(GroupPool, room) }
      [] fam = "identity" ->
           { FileShape(Undefined, Undefined, Undefined, << >>),
             FileShape(<< >>, Undefined, Undefined, << >>),
             FileShape(S_Al, Undefined, S_55, << >>),
             FileShape(S_al, <<"R","d">>, Undefined, << >>) }
           \cup { FileShape(n, Undefined, S_55, <<c>>) :
                      n \in {S_Al, S_al}, c \in { x \in IdentityPool : room > 0 } }
      [] fam = "filters" ->
           { FileShape(Undefined, Undefined, Undefined, cands) :
                 cands \in SeqsUpTo(FilterPool, room) }
      [] fam = "reload" ->
           { FileShape(n, Undefined, Undefined, cands) :
                 n \in {Undefined, S_Al},
                 cands \in SeqsUpTo(ReloadPool, Min(room, 1)) }

\* The corpora of a family: at most n records holding at most `room` candidates in all
RECURSIVE CorpusShapes(_, _, _)
CorpusShapes(fam, n, room) ==
    IF n = 0 THEN { << >> }
    ELSE { << >> } \cup
         UNION { { <<f>> \o rest : rest \in CorpusShapes(fam, n - 1, room - Len(f.cands)) } :
                     f \in FileShapes(fam, room) }

\* The IndividualRecord number idx of the corpus given to load call number run
IndividualRecord(run, idx, shape) ==
    [file_name |-> <<"f", Digit(idx)>>,
     file_path |-> <<Digit(run), "/", "f", Digit(idx)>>,
     name |-> shape.name,
     address |-> shape.address,
     phone |-> shape.phone,
     pii_candidates |-> shape.cands]

\* ExtractionResults; the engine reads only its files
ExtractionResults(run, shapes) ==
    [files |-> [i \in DOMAIN shapes |-> IndividualRecord(run, i, shapes[i])]]

\* Type labels T1, T2, ... and values v0, v1, ...
TypeLabel(k) == <<"T", Digit(k)>>
PlainValue(k) == <<"v", Digit(k)>>

\* n type labels attached to the value v0
LabelsLine(n, c) ==
    [k \in 1..n |-> Cand(PlainValue(0), TypeLabel(k), c, Undefined)]

\* The label T1 attached e times to the empty string and to m other values
ValuesLine(e, m, c) ==
    [k \in 1..(e + m) |->
        Cand(IF k <= e THEN << >> ELSE PlainValue(k - e), TypeLabel(1), c, Undefined)]

\* Corpora of the "severity" family: a record of labels on one value and a
\* record of values under one label
SeverityCorpora ==
    { << FileShape(Undefined, Undefined, Undefined, LabelsLine(n, c)),
         FileShape(Undefined, Undefined, Undefined, ValuesLine(e, m, c)) >> :
          n \in 0..MaxTypes, e \in 0..MaxEmpty, m \in 0..MaxValues, c \in {"high", "low"} }

\* Spelling number k of the value v0: k - 1 leading spaces
RECURSIVE Spelling(_)
Spelling(k) == IF k <= 1 THEN PlainValue(0) ELSE <<" ">> \o Spelling(k - 1)

\* n type labels, each on its own spelling of one value
SpellingsLine(n) ==
    [k \in 1..n |-> Cand(Spelling(k), TypeLabel(k), "medium", Undefined)]

\* T1 and T2 on the value v1, T2 and T3 on the value v2
ChainLine ==
    << Cand(PlainValue(1), TypeLabel(1), "medium", Undefined),
       Cand(PlainValue(1), TypeLabel(2), "medium", Undefined),
       Cand(PlainValue(2), TypeLabel(2), "medium", Undefined),
       Cand(PlainValue(2), TypeLabel(3), "medium", Undefined) >>

\* Corpora of the "schema" family: labels on spellings of one value, and a
\* chain of labels that share values pairwise
SchemaCorpora ==
    { << FileShape(Undefined, Undefined, Undefined, SpellingsLine(n)) >> : n \in 1..MaxTypes }
    \cup { << FileShape(Undefined, Undefined, Undefined, ChainLine) >> }

\* ResolutionOptions as loadFromExtractionResults is given them
LoadOptionsSet ==
    { [ambiguous_only |-> a, min_confidence |-> m,
       include_high_confidence_in_conflicts |-> TRUE, normalize_values |-> n] :
          a \in BOOLEAN, m \in {"unset", "low", "medium", "high"}, n \in BOOLEAN }

PassAllOptions ==
    { o \in LoadOptionsSet : ~o.ambiguous_only /\ o.min_confidence = "unset" }

\* The options of the loads of the "identity" family: no filter, or the filters
\* that drop every candidate
IdentityLoadOptions ==
    PassAllOptions
    \cup { o \in LoadOptionsSet :
               o.ambiguous_only /\ o.min_confidence = "high" /\ o.normalize_values }

\* ResolutionOptions as resolve is given them: its default, and the opposite choices
ResolveOptionsSet ==
    { [ambiguous_only |-> TRUE, include_high_confidence_in_conflicts |-> FALSE,
       normalize_values |-> TRUE],
      [ambiguous_only |-> FALSE, include_high_confidence_in_conflicts |-> TRUE,
       normalize_values |-> FALSE] }

LoadCall(run, shapes, options) ==
    [results |-> ExtractionResults(run, shapes), options |-> options]

\* Scripts of exactly n reloads of small corpora
RECURSIVE ReloadScripts(_)
ReloadScripts(n) ==
    IF n = 0 THEN { << >> }
    ELSE { Append(script, LoadCall(n, shapes, options)) :
               script \in ReloadScripts(n - 1),
               shapes \in CorpusShapes("reload", 1, 1),
               options \in PassAllOptions }

\* What a caller may do with one engine: no load at all, one load of a corpus
\* of any family, or several loads of small corpora
CallScripts ==
    { << >> }
    \cup { <<LoadCall(1, shapes, options)>> :
              shapes \in CorpusShapes("groups", MaxFiles, MaxOcc), options \in PassAllOptions }
    \cup { <<LoadCall(1, shapes, options)>> :
              shapes \in CorpusShapes("filters", 1, MaxOcc), options \in LoadOptionsSet }
    \cup { <<LoadCall(1, shapes, options)>> :
              shapes \in CorpusShapes("identity", MaxFiles, MaxOcc), options \in IdentityLoadOptions }
    \cup { <<LoadCall(1, shapes, options)>> :
              shapes \in SeverityCorpora, options \in PassAllOptions }
    \cup { <<LoadCall(1, shapes, options)>> :
              shapes \in SchemaCorpora, options \in PassAllOptions }
    \cup UNION { ReloadScripts(n) : n \in 2..MaxLoads }

----------------------------------------------------------------------------
(* PIIResolutionService: the two public operations *)

\* getAmbiguousCandidates(): the held occurrences of confidence medium or low
GetAmbiguousCandidates(occs) ==
    LET IsAmbiguous(occ) == occ.candidate.confidence = "medium" \/ occ.candidate.confidence = "low"
    IN  SelectSeq(occs, IsAmbiguous)

\* Mutant of LoadedOccurrences: line 247 is missing, the new occurrences are appended
LoadedOccurrences_NoReset(held, files, options) == IngestFiles(held, files, options)

\* loadFromExtractionResults line 247 and lines 250-294
LoadedOccurrences(held, files, options) == IngestFiles(<< >>, files, options)

NoResult ==
    [value_groups |-> << >>, type_groups |-> << >>,
     identity_groups |-> [name |-> << >>, address |-> << >>, phone |-> << >>],
     unified_schema |-> << >>, conflicts |-> << >>,
     summary |-> [total_ambiguous_candidates |-> 0, total_value_groups |-> 0,
                  total_type_groups |-> 0, value_conflicts_count |-> 0,
                  type_conflicts_count |-> 0, total_conflicts |-> 0,
                  total_unified_types |-> 0],
     options |-> [ambiguous_only |-> TRUE, include_high_confidence_in_conflicts |-> FALSE,
                  normalize_values |-> TRUE]]

NotResolved == [status |-> "none", result |-> NoResult]
NotLoadedError == [status |-> "error", result |-> NoResult]

\* Mutant of ResolveOutcome: the guard tests this.occurrences
ResolveOutcome_OccurrenceGuard(occs, recs, options) ==
    IF Len(occs) = 0 THEN NotLoadedError
    ELSE [status |-> "ok", result |-> ResolutionResult(occs, recs, options)]

\* Mutant of ResolveOutcome: the guard is missing
ResolveOutcome_NoGuard(occs, recs, options) ==
    [status |-> "ok", result |-> ResolutionResult(occs, recs, options)]

\* resolve(): throws when no records are held (lines 312-314), else returns the result
ResolveOutcome(occs, recs, options) ==
    IF Len(recs) = 0 THEN NotLoadedError
    ELSE [status |-> "ok", result |-> ResolutionResult(occs, recs, options)]

\* loadFromExtractionResults(results, options), for the script's next call
Load ==
    /\ loadCount < Len(calls)
    /\ LET call == calls[loadCount + 1]
       IN  /\ occurrences' = LoadedOccurrences(occurrences, call.results.files, call.options)
           /\ records' = call.results.files
           /\ loadOptions' = call.options
    /\ loadCount' = loadCount + 1
    /\ resolved' = NotResolved
    /\ UNCHANGED calls

\* resolve(options)
Resolve(options) ==
    /\ resolved' = ResolveOutcome(occurrences, records, options)
    /\ UNCHANGED <<calls, loadCount, occurrences, records, loadOptions>>

EngineIdle ==
    /\ calls = << >>
    /\ loadCount = 0
    /\ occurrences = << >>
    /\ records = << >>
    /\ loadOptions = [ambiguous_only |-> FALSE, min_confidence |-> "unset",
                      include_high_confidence_in_conflicts |-> TRUE, normalize_values |-> TRUE]
    /\ resolved = NotResolved

\* No chunkFileContent call is in progress
ChunkIdle ==
    /\ content = << >>
    /\ chunkSize = 1
    /\ overlapPercentage = 0
    /\ overlapSize = 0
    /\ stepSize = 0
    /\ startIndex = 0
    /\ chunkIndex = 0
    /\ chunks = << >>
    /\ chunkPc = "idle"

InitScan ==
    /\ family \in Families
    /\ numChunks \in 0..MaxChunks
    /\ chunkIdx = 0
    /\ allResults = << >>
    /\ uniquePII = << >>
    /\ oracleLog = << >>
    /\ scanResult = NoScanResult
    /\ record = NoRecord
    /\ scanPc = "scanning"
    /\ EngineIdle
    /\ ChunkIdle
    /\ WorkflowIdle

NextScan ==
    \/ \E result \in OracleResults(family, MaxCands - Len(Arrivals(allResults))) :
           ChunkExtracted(result) /\ UNCHANGED <<engineVars, chunkVars, workflowVars>>
    \/ ChunkFailed /\ UNCHANGED <<engineVars, chunkVars, workflowVars>>
    \/ ScanReturn /\ UNCHANGED <<engineVars, chunkVars, workflowVars>>
    \/ BuildRecord /\ UNCHANGED <<engineVars, chunkVars, workflowVars>>

SpecScan == InitScan /\ [][NextScan]_vars

ScanIdle ==
    /\ family = "dedup"
    /\ numChunks = 0
    /\ chunkIdx = 0
    /\ allResults = << >>
    /\ uniquePII = << >>
    /\ oracleLog = << >>
    /\ scanResult = NoScanResult
    /\ record = NoRecord
    /\ scanPc = "idle"

Init ==
    /\ ScanIdle
    /\ calls \in CallScripts
    /\ loadCount = 0
    /\ occurrences = << >>
    /\ records = << >>
    /\ loadOptions \in { o \in PassAllOptions : o.normalize_values }
    /\ resolved = NotResolved
    /\ ChunkIdle
    /\ WorkflowIdle

Next ==
    \/ Load /\ UNCHANGED <<scanVars, chunkVars, workflowVars>>
    \/ \E options \in ResolveOptionsSet : Resolve(options) /\ UNCHANGED <<scanVars, chunkVars, workflowVars>>

Spec == Init /\ [][Next]_vars

----------------------------------------------------------------------------
(* chunkFileContent *)

\* The texts given to the chunker are prefixes of the alphabet
Text(len) == SubSeq(LowerChars, 1, len)

\* The overlap percentages given to the chunker, in and out of [0, 100)
Percentages == {-10, 0, 10, 25, 50, 75, 99, 100, 150}

\* Mutant of ValidArguments: a negative overlap percentage is let through
ValidArguments_NoLowerBound(size, percentage) ==
    /\ ~(size <= 0)
    /\ ~(percentage >= 100)

\* Lines 101-107: neither throw is reached
ValidArguments(size, percentage) ==
    /\ ~(size <= 0)
    /\ ~(percentage < 0 \/ percentage >= 100)

\* Line 110: Math.floor((chunkSize * overlapPercentage) / 100)
OverlapSize(size, percentage) == (size * percentage) \div 100

\* Mutant of StepSize: the step is one character too long
StepSize_PlusOne(size, overlap) == size - overlap + 1

\* Mutant of StepSize: the overlap is not subtracted
StepSize_NoOverlap(size, overlap) == size

\* Line 112
StepSize(size, overlap) == size - overlap

\* String.prototype.substring(from, to) for 0 <= from <= to <= length
Substring(s, from, to) == SubSeq(s, from + 1, to)

\* Lines 101-116: the argument checks and the locals before the loop
ChunkValidate ==
    /\ chunkPc = "called"
    /\ IF ValidArguments(chunkSize, overlapPercentage)
       THEN /\ overlapSize' = OverlapSize(chunkSize, overlapPercentage)
            /\ stepSize' = StepSize(chunkSize, OverlapSize(chunkSize, overlapPercentage))
            /\ chunkPc' = "loop"
       ELSE /\ chunkPc' = "thrown"
            /\ UNCHANGED <<overlapSize, stepSize>>
    /\ startIndex' = 0
    /\ chunkIndex' = 0
    /\ chunks' = << >>
    /\ UNCHANGED <<content, chunkSize, overlapPercentage>>

\* Lines 118-137: one iteration of the while loop
ChunkLoop ==
    /\ chunkPc = "loop"
    /\ startIndex < Len(content)
    /\ LET endIndex == Min(startIndex + chunkSize, Len(content))
       IN  /\ chunks' = Append(chunks, [index |-> chunkIndex,
                                        content |-> Substring(content, startIndex, endIndex),
                                        startIndex |-> startIndex,
                                        endIndex |-> endIndex])
           /\ IF endIndex = Len(content)
              THEN /\ chunkPc' = "break"
                   /\ UNCHANGED <<startIndex, chunkIndex>>
              ELSE /\ startIndex' = startIndex + stepSize
                   /\ chunkIndex' = chunkIndex + 1
                   /\ chunkPc' = "loop"
    /\ UNCHANGED <<content, chunkSize, overlapPercentage, overlapSize, stepSize>>

\* Line 139, reached by the break or by the loop condition failing
ChunkReturn ==
    /\ \/ chunkPc = "break"
       \/ chunkPc = "loop" /\ ~(startIndex < Len(content))
    /\ chunkPc' = "returned"
    /\ UNCHANGED <<content, chunkSize, overlapPercentage, overlapSize, stepSize,
                   startIndex, chunkIndex, chunks>>

InitChunk ==
    /\ content \in { Text(len) : len \in 0..MaxLen }
    /\ chunkSize \in -1..MaxChunkSize
    /\ overlapPercentage \in Percentages
    /\ overlapSize = 0
    /\ stepSize = 0
    /\ startIndex = 0
    /\ chunkIndex = 0
    /\ chunks = << >>
    /\ chunkPc = "called"
    /\ ScanIdle
    /\ EngineIdle
    /\ WorkflowIdle

NextChunk ==
    \/ ChunkValidate /\ UNCHANGED <<scanVars, engineVars, workflowVars>>
    \/ ChunkLoop /\ UNCHANGED <<scanVars, engineVars, workflowVars>>
    \/ ChunkReturn /\ UNCHANGED <<scanVars, engineVars, workflowVars>>

SpecChunk == InitChunk /\ [][NextChunk]_vars

\* chunkFileContent is synchronous code: once called it runs each of its steps
SpecChunkFair == InitChunk /\ [][NextChunk]_vars /\ WF_vars(NextChunk)

InitWorkflow ==
    /\ numDocs \in 0..MaxDocs
    /\ docIdx = 0
    /\ docLog = << >>
    /\ wfResults = << >>
    /\ totalPIIFound = 0
    /\ workflowResult = NoWorkflowResult
    /\ workflowPc = "looping"
    /\ ScanIdle
    /\ EngineIdle
    /\ ChunkIdle

NextWorkflow ==
    \/ NoFiles /\ UNCHANGED <<scanVars, engineVars, chunkVars>>
    \/ \E piiScanResult \in DocScans :
           DocScanned(piiScanResult) /\ UNCHANGED <<scanVars, engineVars, chunkVars>>
    \/ DocFailed /\ UNCHANGED <<scanVars, engineVars, chunkVars>>
    \/ WorkflowReturn /\ UNCHANGED <<scanVars, engineVars, chunkVars>>

SpecWorkflow == InitWorkflow /\ [][NextWorkflow]_vars

----------------------------------------------------------------------------
(* Properties of the scan: C1 - C4 *)

\* The oracle's successful answers so far, in chunk-index order
RECURSIVE Succeeded(_)
Succeeded(log) ==
    IF log = << >> THEN << >>
    ELSE IF Head(log).failed THEN Succeeded(Tail(log))
         ELSE <<Head(log).result>> \o Succeeded(Tail(log))

\* The deduplicator run over a list of chunk results, from an empty map
RECURSIVE DedupResults(_, _)
DedupResults(m, results) ==
    IF results = << >> THEN m
    ELSE DedupResults(DedupCandidates(m, Head(results).pii_candidates), Tail(results))

DedupOf(results) == MapValues(DedupResults(<< >>, results))

ScanDone == scanPc \in {"returned", "recorded"}

\* C1: whenever a candidate with confidence high has arrived for a dedup key,
\* the entry stored for that key has confidence high, in the map after every
\* chunk and in the combined list the scan returns, whatever arrived before or
\* after it (so no later medium or low candidate replaces a stored high one).
C1_HighConfidenceWins ==
    LET arrived == Arrivals(Succeeded(oracleLog))
    IN  \A i \in DOMAIN arrived :
            arrived[i].confidence = "high" =>
                /\ MapHas(uniquePII, DedupKey(arrived[i]))
                /\ MapGet(uniquePII, DedupKey(arrived[i])).confidence = "high"
                /\ ScanDone =>
                     /\ \E j \in DOMAIN scanResult.combined_pii :
                            DedupKey(scanResult.combined_pii[j]) = DedupKey(arrived[i])
                     /\ \A j \in DOMAIN scanResult.combined_pii :
                            DedupKey(scanResult.combined_pii[j]) = DedupKey(arrived[i])
                                => scanResult.combined_pii[j].confidence = "high"

\* A scan that returned after a low candidate, then a high one, then a medium
\* one arrived for the same key
C1_Witness ==
    LET arrived == Arrivals(Succeeded(oracleLog))
    IN  /\ scanPc = "returned"
        /\ \E i, j, k \in DOMAIN arrived :
              /\ i < j /\ j < k
              /\ DedupKey(arrived[i]) = DedupKey(arrived[j])
              /\ DedupKey(arrived[j]) = DedupKey(arrived[k])
              /\ arrived[i].confidence = "low"
              /\ arrived[j].confidence = "high"
              /\ arrived[k].confidence = "medium"

\* C2: deduplicating a list of chunk results followed by the same list again
\* gives the same candidate list (keys, retained candidates, order) as
\* deduplicating the list once.
C2_DedupIdempotent ==
    DedupOf(allResults \o allResults) = DedupOf(allResults)

\* A list in which the second pass replaces a stored entry: a key with a high
\* candidate that is not the first candidate of its key, and a second key
C2_Witness ==
    LET arrived == Arrivals(allResults)
    IN  /\ ScanDone
        /\ Len(DedupOf(allResults)) >= 2
        /\ \E i, j \in DOMAIN arrived :
              /\ i < j
              /\ DedupKey(arrived[i]) = DedupKey(arrived[j])
              /\ arrived[i] # arrived[j]
              /\ arrived[j].confidence = "high"

\* C3: whatever chunks fail, every chunk is processed, the scan returns, and
\* what it returns is the deduplication of exactly the chunks that succeeded, in
\* chunk-index order.
C3_ChunkFailureIsolation ==
    /\ scanPc \in {"scanning", "returned", "recorded"}
    /\ Len(oracleLog) = chunkIdx
    /\ chunkIdx <= numChunks
    /\ ScanDone =>
         /\ chunkIdx = numChunks
         /\ scanResult.results = Succeeded(oracleLog)
         /\ scanResult.combined_pii = DedupOf(Succeeded(oracleLog))
         /\ scanResult.total_pii_found = Len(scanResult.combined_pii)

\* A returned scan in which a chunk failed and a later chunk contributed a candidate
C3_Witness ==
    /\ scanPc = "returned"
    /\ \E i, j \in DOMAIN oracleLog :
          /\ i < j
          /\ oracleLog[i].failed
          /\ ~oracleLog[j].failed
          /\ oracleLog[j].result.pii_candidates # << >>
    /\ scanResult.combined_pii # << >>

IdentityFields == {"name", "address", "phone"}

\* The value of field f in the lowest-index chunk that reported it (Undefined if none did)
FirstReported(log, f) ==
    LET ok == Succeeded(log)
    IN  IF \E i \in DOMAIN ok : Truthy(ok[i][f])
        THEN ok[CHOOSE i \in DOMAIN ok :
                    /\ Truthy(ok[i][f])
                    /\ \A j \in 1..(i-1) : ~Truthy(ok[j][f])][f]
        ELSE Undefined

\* C4 as stated: each of name, address and phone on the record is the value of
\* the lowest-index chunk that reported that field, and is absent only when no
\* chunk reported it.
C4_PerFieldFirstReported ==
    scanPc = "recorded" =>
        \A f \in IdentityFields : record[f] = FirstReported(oracleLog, f)

\* C4 amended: each of name, address and phone on the record is the value that
\* the first successfully extracted chunk gave for it when that value is a
\* non-empty string, and is absent otherwise, also when a later chunk reported it.
C4_FirstResultIdentity ==
    scanPc = "recorded" =>
        LET ok == Succeeded(oracleLog)
        IN  \A f \in IdentityFields :
                record[f] = IF ok # << >> /\ Truthy(ok[1][f]) THEN ok[1][f] ELSE Undefined

\* A record whose name is absent although the second successful chunk reported one
C4_Witness ==
    /\ scanPc = "recorded"
    /\ Len(Succeeded(oracleLog)) >= 2
    /\ ~Truthy(Succeeded(oracleLog)[1].name)
    /\ Truthy(Succeeded(oracleLog)[2].name)
    /\ Truthy(Succeeded(oracleLog)[1].phone)
    /\ record.name = Undefined
    /\ record.phone = Succeeded(oracleLog)[1].phone

----------------------------------------------------------------------------
(* Properties of the resolution engine: C5 - C10 *)

Resolved == resolved.status = "ok"
ResolveCalled == resolved.status # "none"

\* No corpus was ingested: no load was made, or every load had an empty files list
NoCorpusIngested == \A k \in 1..loadCount : calls[k].results.files = << >>

\* C5: resolve() on an engine on which no corpus has been ingested (a fresh
\* one, or one whose loads all had an empty files list) fails with the
\* not-loaded error and returns no result.
C5_ResolveBeforeLoadFails ==
    (ResolveCalled /\ NoCorpusIngested) => resolved = NotLoadedError

\* resolve() failed on an engine whose only load had an empty files list
C5_Witness ==
    /\ loadCount >= 1
    /\ NoCorpusIngested
    /\ resolved = NotLoadedError

ResultOccurrences(result) ==
    UNION { Elements(result.value_groups[i].val.occurrences_detail) : i \in DOMAIN result.value_groups }
    \cup UNION { Elements(result.type_groups[i].val.occurrences_detail) : i \in DOMAIN result.type_groups }
    \cup UNION { Elements(result.conflicts[i].occurrences) : i \in DOMAIN result.conflicts }

\* The file names listed by the groups, schema entries and conflicts of a result
ResultFileNames(result) ==
    UNION { Elements(result.value_groups[i].val.files) : i \in DOMAIN result.value_groups }
    \cup UNION { Elements(result.type_groups[i].val.files) : i \in DOMAIN result.type_groups }
    \cup UNION { Elements(result.unified_schema[i].val.files) : i \in DOMAIN result.unified_schema }
    \cup UNION { Elements(result.conflicts[i].files) : i \in DOMAIN result.conflicts }

\* The files listed by the identity groups of a result
ResultIdentityFiles(result) ==
    UNION { UNION { Elements(result.identity_groups[f][i].val.files) :
                        i \in DOMAIN result.identity_groups[f] } : f \in IdentityFields }

\* The records of load call number run carry its number in their path
FromRun(path, run) == path[1] = Digit(run)

\* C7: after any sequence of loads the engine holds, and resolve() returns,
\* only what the most recent load ingested: its records, the candidates of
\* those records that survive its options, and nothing of an earlier load.
C7_ReloadResets ==
    loadCount >= 1 =>
        LET call == calls[loadCount]
        IN  /\ records = call.results.files
            /\ loadOptions = call.options
            /\ occurrences = IngestFiles(<< >>, call.results.files, call.options)
            /\ \A i \in DOMAIN occurrences : FromRun(occurrences[i].file_path, loadCount)
            /\ Resolved =>
                 /\ ResultOccurrences(resolved.result) = Elements(occurrences)
                 /\ \A o \in ResultOccurrences(resolved.result) : FromRun(o.file_path, loadCount)
                 /\ ResultFileNames(resolved.result)
                        \subseteq { records[i].file_name : i \in DOMAIN records }
                 /\ \A f \in ResultIdentityFiles(resolved.result) : FromRun(f.file_path, loadCount)
                 /\ resolved.result.summary.total_ambiguous_candidates = Len(occurrences)

\* resolve() returned groups after a second load, the first load having ingested
\* occurrences and a named record too
C7_Witness ==
    /\ loadCount = 2
    /\ Resolved
    /\ IngestFiles(<< >>, calls[1].results.files, calls[1].options) # << >>
    /\ Truthy(calls[1].results.files[1].name)
    /\ resolved.result.value_groups # << >>
    /\ occurrences # IngestFiles(<< >>, calls[1].results.files, calls[1].options)

\* C8: in every result of resolve(), a ValueGroup has has_type_conflict exactly
\* when its pii_types holds more than one distinct type label.
C8_TypeConflictFlag ==
    Resolved =>
        \A i \in DOMAIN resolved.result.value_groups :
            LET group == resolved.result.value_groups[i].val
            IN  group.has_type_conflict <=> Cardinality(Elements(group.pii_types)) > 1

\* A result with a ValueGroup of two occurrences under two type labels
C8_Witness ==
    /\ Resolved
    /\ \E i \in DOMAIN resolved.result.value_groups :
          LET group == resolved.result.value_groups[i].val
          IN  /\ group.has_type_conflict
              /\ group.occurrences = 2
              /\ Cardinality(Elements(group.pii_types)) = 2

\* C9: in every result of resolve(), a TypeGroup has has_value_conflict exactly
\* when unique_value_count is greater than 1, and unique_value_count is the
\* length of its values list.
C9_ValueConflictFlag ==
    Resolved =>
        \A i \in DOMAIN resolved.result.type_groups :
            LET group == resolved.result.type_groups[i].val
            IN  /\ group.has_value_conflict <=> group.unique_value_count > 1
                /\ group.unique_value_count = Len(group.values)

\* A result with a TypeGroup of two distinct values
C9_Witness ==
    /\ Resolved
    /\ \E i \in DOMAIN resolved.result.type_groups :
          LET group == resolved.result.type_groups[i].val
          IN  /\ group.has_value_conflict
              /\ group.unique_value_count = 2

\* C10: in every result of resolve(), a ValueGroup has is_ambiguous exactly when
\* it has a type conflict or one of its occurrences has confidence medium or
\* low (so a group of high-confidence occurrences of one type is not ambiguous).
C10_AmbiguityFlag ==
    Resolved =>
        \A i \in DOMAIN resolved.result.value_groups :
            LET group == resolved.result.value_groups[i].val
            IN  group.is_ambiguous <=>
                    \/ group.has_type_conflict
                    \/ \E j \in DOMAIN group.occurrences_detail :
                           group.occurrences_detail[j].candidate.confidence \in {"medium", "low"}

\* A result with a ValueGroup that is ambiguous only because of a medium occurrence
C10_Witness ==
    /\ Resolved
    /\ \E i \in DOMAIN resolved.result.value_groups :
          LET group == resolved.result.value_groups[i].val
          IN  /\ group.is_ambiguous
              /\ ~group.has_type_conflict
              /\ \A j \in DOMAIN group.occurrences_detail :
                     group.occurrences_detail[j].candidate.confidence \in {"medium", "high"}

----------------------------------------------------------------------------
(* Properties of the resolution engine: C11 - C15 *)

\* The held occurrences whose value is `key` after trim and lowercase
OccurrencesOfKey(key) ==
    LET HasKey(o) == ToLowerCase(Trim(o.candidate.value)) = key
    IN  SelectSeq(occurrences, HasKey)

NormalizedKeys == { ToLowerCase(Trim(occurrences[i].candidate.value)) : i \in DOMAIN occurrences }

\* C11: in a result of resolve() with normalize_values = true, the ValueGroups
\* are exactly the classes of the held occurrences under "equal after trim and
\* lowercase": one group per normalized value, holding every occurrence of that
\* normalized value and no other, and its value field is the original string of
\* the first such occurrence.
C11_NormalizedValueGroups ==
    (Resolved /\ resolved.result.options.normalize_values) =>
        LET groups == resolved.result.value_groups
        IN  /\ { ToLowerCase(Trim(groups[i].val.value)) : i \in DOMAIN groups } = NormalizedKeys
            /\ Len(groups) = Cardinality(NormalizedKeys)
            /\ \A i \in DOMAIN groups :
                   LET members == OccurrencesOfKey(ToLowerCase(Trim(groups[i].val.value)))
                   IN  /\ groups[i].val.occurrences_detail = members
                       /\ groups[i].val.value = members[1].candidate.value

\* A result under normalize_values = true with a group of two spellings of one
\* value, named by the first-seen spelling, which is not in normalized form
C11_Witness ==
    /\ Resolved
    /\ resolved.result.options.normalize_values
    /\ \E i \in DOMAIN resolved.result.value_groups :
          LET group == resolved.result.value_groups[i].val
          IN  /\ group.occurrences = 2
              /\ group.value = S_ab
              /\ group.occurrences_detail[2].candidate.value = S_Ab

\* The conflicts of one conflict_type in a result, in the order of the list
ConflictsOfType(result, type) ==
    LET IsOfType(c) == c.conflict_type = type
    IN  SelectSeq(result.conflicts, IsOfType)

\* C12: every result of resolve() holds exactly one value_type_mismatch
\* conflict per ValueGroup with has_type_conflict, in the order of the groups,
\* and none for any other group; the conflict names the group's value, carries
\* the group's whole occurrence list, and has severity high when the group has
\* more than 2 distinct types and medium when it has exactly 2.
C12_ValueTypeMismatch ==
    Resolved =>
        LET HasTypeConflict(e) == e.val.has_type_conflict
            flagged   == SelectSeq(resolved.result.value_groups, HasTypeConflict)
            conflicts == ConflictsOfType(resolved.result, "value_type_mismatch")
        IN  /\ Len(conflicts) = Len(flagged)
            /\ \A i, j \in DOMAIN flagged : flagged[i].val.value = flagged[j].val.value => i = j
            /\ \A i \in DOMAIN flagged :
                   LET group == flagged[i].val
                       types == Cardinality(Elements(group.pii_types))
                   IN  /\ conflicts[i].value = group.value
                       /\ conflicts[i].occurrences = group.occurrences_detail
                       /\ types > 2 => conflicts[i].severity = "high"
                       /\ types = 2 => conflicts[i].severity = "medium"
                       /\ types >= 2

\* A result with a value_type_mismatch conflict of severity high for a value
\* under three labels, next to a group without conflict
C12_Witness ==
    /\ Resolved
    /\ \E i \in DOMAIN resolved.result.conflicts :
          LET c == resolved.result.conflicts[i]
          IN  /\ c.conflict_type = "value_type_mismatch"
              /\ c.severity = "high"
              /\ Len(c.occurrences) = 3
    /\ \E i \in DOMAIN resolved.result.value_groups :
          ~resolved.result.value_groups[i].val.has_type_conflict

\* The number of distinct values among the occurrences of a TypeGroup, values
\* being compared after trim and lowercase exactly when normalize_values is set
DistinctValues(group, options) ==
    Cardinality({ IF options.normalize_values
                  THEN ToLowerCase(Trim(group.occurrences_detail[j].candidate.value))
                  ELSE group.occurrences_detail[j].candidate.value :
                      j \in DOMAIN group.occurrences_detail })

\* C13 as stated: every result of resolve() holds exactly one
\* type_value_mismatch conflict per TypeGroup with has_value_conflict and none
\* for any other TypeGroup, with severity high when the group has more than 3
\* distinct values and medium when it has 2 or 3.
C13_TypeValueMismatch ==
    Resolved =>
        LET HasValueConflict(e) == e.val.has_value_conflict
            flagged   == SelectSeq(resolved.result.type_groups, HasValueConflict)
            conflicts == ConflictsOfType(resolved.result, "type_value_mismatch")
        IN  /\ Len(conflicts) = Len(flagged)
            /\ \A i \in DOMAIN flagged :
                   LET group  == flagged[i].val
                       values == DistinctValues(group, resolved.result.options)
                   IN  /\ conflicts[i].pii_type = group.pii_type
                       /\ conflicts[i].occurrences = group.occurrences_detail
                       /\ values > 3 => conflicts[i].severity = "high"
                       /\ values \in {2, 3} => conflicts[i].severity = "medium"

\* What the code does for C13: the emission is as stated, and the severity
\* follows the length of the group's values list, which counts the empty
\* string once per occurrence
C13_SeverityByListLength ==
    Resolved =>
        LET HasValueConflict(e) == e.val.has_value_conflict
            flagged   == SelectSeq(resolved.result.type_groups, HasValueConflict)
            conflicts == ConflictsOfType(resolved.result, "type_value_mismatch")
        IN  /\ Len(conflicts) = Len(flagged)
            /\ \A i \in DOMAIN flagged :
                   LET group == flagged[i].val
                   IN  /\ conflicts[i].pii_type = group.pii_type
                       /\ conflicts[i].occurrences = group.occurrences_detail
                       /\ conflicts[i].severity =
                              IF Len(group.values) > 3 THEN "high" ELSE "medium"
                       /\ Len(group.values) >= DistinctValues(group, resolved.result.options)

\* A result whose type_value_mismatch conflict has severity high for a type
\* with three distinct values, the empty string among them twice
C13_Divergence ==
    /\ Resolved
    /\ \E i \in DOMAIN resolved.result.type_groups :
          LET group == resolved.result.type_groups[i].val
          IN  /\ DistinctValues(group, resolved.result.options) = 3
              /\ \E k \in DOMAIN resolved.result.conflicts :
                     /\ resolved.result.conflicts[k].conflict_type = "type_value_mismatch"
                     /\ resolved.result.conflicts[k].pii_type = group.pii_type
                     /\ resolved.result.conflicts[k].severity = "high"

\* C14: every result of resolve() holds exactly one confidence_issue conflict
\* per held occurrence of confidence low, in the order of the occurrences, and
\* none for an occurrence of confidence medium or high; the conflict has
\* severity low, its occurrence list is that one occurrence and its files list
\* is that occurrence's file.
C14_ConfidenceIssue ==
    Resolved =>
        LET IsLow(o)  == o.candidate.confidence = "low"
            low       == SelectSeq(occurrences, IsLow)
            conflicts == ConflictsOfType(resolved.result, "confidence_issue")
        IN  /\ Len(conflicts) = Len(low)
            /\ \A i \in DOMAIN low :
                   /\ conflicts[i].severity = "low"
                   /\ conflicts[i].occurrences = <<low[i]>>
                   /\ conflicts[i].files = <<low[i].file_name>>
                   /\ conflicts[i].value = low[i].candidate.value
                   /\ conflicts[i].pii_type = low[i].candidate.pii_type

\* A result with a confidence_issue conflict, the engine holding a low
\* occurrence and one that is not low
C14_Witness ==
    /\ Resolved
    /\ Len(ConflictsOfType(resolved.result, "confidence_issue")) = 1
    /\ \E i, j \in DOMAIN occurrences :
          /\ occurrences[i].candidate.confidence = "low"
          /\ occurrences[j].candidate.confidence = "medium"

\* Two distinct type labels are attached to one and the same value string
\* among the held occurrences
CoOccur(typeA, typeB) ==
    /\ typeA # typeB
    /\ \E i, j \in DOMAIN occurrences :
          /\ occurrences[i].candidate.pii_type = typeA
          /\ occurrences[j].candidate.pii_type = typeB
          /\ occurrences[i].candidate.value = occurrences[j].candidate.value

HeldTypes == { occurrences[i].candidate.pii_type : i \in DOMAIN occurrences }

\* The merged type names that the schema of a result lists for a type
SchemaNames(result, type) ==
    UNION { Elements(result.unified_schema[i].val.variations) :
                i \in { k \in DOMAIN result.unified_schema : result.unified_schema[k].key = type } }

\* C15 as stated: whenever two distinct type labels A and B are attached to the
\* same value among the held occurrences, the schema entry of A lists B among
\* its merged type names and the entry of B lists A, also when A has no other
\* related label.
C15_SchemaLinksCoOccurring ==
    Resolved =>
        \A typeA, typeB \in HeldTypes :
            CoOccur(typeA, typeB) =>
                /\ typeB \in SchemaNames(resolved.result, typeA)
                /\ typeA \in SchemaNames(resolved.result, typeB)

\* What the code does for C15: an entry lists its related labels only when
\* there are at least two of them, and otherwise lists its own label alone
C15_SchemaListsTwoOrMoreRelated ==
    Resolved =>
        \A typeA \in HeldTypes :
            LET related == { typeB \in HeldTypes :
                               \E i, j \in DOMAIN occurrences :
                                   /\ typeA # typeB
                                   /\ occurrences[i].candidate.pii_type = typeA
                                   /\ occurrences[j].candidate.pii_type = typeB
                                   /\ ToLowerCase(Trim(occurrences[i].candidate.value))
                                        = ToLowerCase(Trim(occurrences[j].candidate.value)) }
            IN  SchemaNames(resolved.result, typeA) =
                    IF Cardinality(related) >= 2 THEN related ELSE {typeA}

\* A result whose schema entry for SSN lists SSN alone although SSN and Tax are
\* attached to the same value
C15_Divergence ==
    /\ Resolved
    /\ CoOccur(S_SSN, S_Tax)
    /\ SchemaNames(resolved.result, S_SSN) = {S_SSN}

----------------------------------------------------------------------------
(* Properties of chunkFileContent: C16 - C17 *)

\* The text indices of a window
Window(chunk) == chunk.startIndex .. (chunk.endIndex - 1)

\* C16: for a text of length L > 0, chunkSize > 0 and overlapPercentage in
\* [0, 100), the windows returned by chunkFileContent cover every index of
\* [0, L), and two consecutive windows share exactly
\* floor(chunkSize * overlapPercentage / 100) characters, except possibly when
\* the second one is the final window and is shorter than chunkSize.
C16_ChunkCoverageAndOverlap ==
    ( /\ chunkPc = "returned"
      /\ Len(content) > 0
      /\ chunkSize > 0
      /\ overlapPercentage >= 0 /\ overlapPercentage < 100 ) =>
        /\ UNION { Window(chunks[k]) : k \in DOMAIN chunks } = 0 .. (Len(content) - 1)
        /\ \A k \in 1 .. (Len(chunks) - 1) :
               \/ Cardinality(Window(chunks[k]) \cap Window(chunks[k + 1]))
                      = (chunkSize * overlapPercentage) \div 100
               \/ /\ k + 1 = Len(chunks)
                  /\ chunks[k + 1].endIndex - chunks[k + 1].startIndex < chunkSize

\* chunkFileContent returned three windows or more that overlap, the last one
\* shorter than chunkSize
C16_Witness ==
    /\ chunkPc = "returned"
    /\ Len(chunks) >= 3
    /\ (chunkSize * overlapPercentage) \div 100 > 0
    /\ chunks[Len(chunks)].endIndex - chunks[Len(chunks)].startIndex < chunkSize
    /\ Cardinality(Window(chunks[1]) \cap Window(chunks[2])) > 0

\* C17: chunkFileContent called with chunkSize <= 0, or with overlapPercentage
\* < 0 or >= 100, throws and produces no chunk, whatever the content, the
\* empty text included.
C17_ChunkerValidation ==
    ( /\ chunkPc \notin {"idle", "called"}
      /\ \/ chunkSize <= 0
         \/ overlapPercentage < 0
         \/ overlapPercentage >= 100 ) =>
        /\ chunkPc = "thrown"
        /\ chunks = << >>

\* chunkFileContent threw for the empty text and an overlap percentage of 100
C17_Witness ==
    /\ chunkPc = "thrown"
    /\ content = << >>
    /\ chunkSize > 0
    /\ overlapPercentage = 100

----------------------------------------------------------------------------
(* Properties of ingestion: C18 - C20 *)

\* A value in the form the options of the latest load ask for
LoadForm(value) ==
    IF loadOptions.normalize_values THEN ToLowerCase(Trim(value)) ELSE value

\* The candidate's value equals the record's name, address or phone, both
\* taken in the form the options ask for
OwnIdentityValue(rec, candidate) ==
    \E f \in IdentityFields :
        /\ Truthy(rec[f])
        /\ LoadForm(candidate.value) = LoadForm(rec[f])

\* The candidate of the record is held as an occurrence
Held(rec, candidate) ==
    \E i \in DOMAIN occurrences :
        /\ occurrences[i].candidate = candidate
        /\ occurrences[i].file_path = rec.file_path

\* C18 as stated: for both settings of normalize_values, a candidate whose
\* value, normalized exactly when normalize_values is set, equals its own
\* record's name, address or phone taken in the same form is never held as an
\* occurrence.
C18_OwnIdentityExcluded ==
    loadCount >= 1 =>
        \A r \in DOMAIN records :
            \A k \in DOMAIN records[r].pii_candidates :
                OwnIdentityValue(records[r], records[r].pii_candidates[k])
                    => ~Held(records[r], records[r].pii_candidates[k])

\* What the code does for C18: the record's fields are always trimmed and
\* lowercased, the candidate's value only when normalize_values is set
C18_ExcludedAgainstNormalizedFields ==
    loadCount >= 1 =>
        \A r \in DOMAIN records :
            \A k \in DOMAIN records[r].pii_candidates :
                LET candidate == records[r].pii_candidates[k]
                IN  ( \E f \in IdentityFields :
                         /\ Truthy(records[r][f])
                         /\ ToLowerCase(Trim(records[r][f])) # << >>
                         /\ LoadForm(candidate.value) = ToLowerCase(Trim(records[r][f])) )
                        => ~Held(records[r], candidate)

\* After a load with normalize_values = false the engine holds a candidate
\* whose value is character for character its record's name
C18_Divergence ==
    /\ loadCount >= 1
    /\ ~loadOptions.normalize_values
    /\ \E r \in DOMAIN records :
          \E k \in DOMAIN records[r].pii_candidates :
              /\ records[r].pii_candidates[k].value = records[r].name
              /\ Held(records[r], records[r].pii_candidates[k])

\* The label names an identity field: its lowercase form contains an entry of
\* the lexicon, all of which contain name, address or phone
NamesIdentity(type) ==
    \/ \E i \in DOMAIN IdentityTypes : Includes(ToLowerCase(type), IdentityTypes[i])
    \/ \E word \in {S_name, S_address, S_phone} : Includes(ToLowerCase(type), word)

\* The type labels that a result mentions in its groups, schema and conflicts
ResultTypes(result) ==
    UNION { Elements(result.value_groups[i].val.pii_types) : i \in DOMAIN result.value_groups }
    \cup { result.type_groups[i].key : i \in DOMAIN result.type_groups }
    \cup { result.type_groups[i].val.pii_type : i \in DOMAIN result.type_groups }
    \cup { result.unified_schema[i].key : i \in DOMAIN result.unified_schema }
    \cup { result.unified_schema[i].val.canonical_type : i \in DOMAIN result.unified_schema }
    \cup UNION { Elements(result.unified_schema[i].val.variations) : i \in DOMAIN result.unified_schema }
    \cup ({ result.conflicts[i].pii_type : i \in DOMAIN result.conflicts } \ {Undefined})
    \cup { o.candidate.pii_type : o \in ResultOccurrences(result) }

\* C19: after loadFromExtractionResults no held occurrence has a pii_type
\* whose lowercase form contains an entry of the identity lexicon, and no
\* ValueGroup, TypeGroup, schema entry or conflict of a result of resolve()
\* mentions such a type.
C19_IdentityTypesExcluded ==
    /\ \A i \in DOMAIN occurrences : ~NamesIdentity(occurrences[i].candidate.pii_type)
    /\ Resolved => \A type \in ResultTypes(resolved.result) : ~NamesIdentity(type)

\* A result with groups, for a corpus that had a candidate labelled Name next
\* to an ingested one
C19_Witness ==
    /\ Resolved
    /\ resolved.result.type_groups # << >>
    /\ \E r \in DOMAIN records :
          \E k \in DOMAIN records[r].pii_candidates :
              records[r].pii_candidates[k].pii_type = S_Name

\* low < medium < high
ConfidenceRank == [low |-> 1, medium |-> 2, high |-> 3]

\* The candidate passes the confidence filters of the latest load
PassesFilters(candidate) ==
    /\ ~(loadOptions.ambiguous_only /\ candidate.confidence = "high")
    /\ \/ loadOptions.min_confidence = "unset"
       \/ ConfidenceRank[candidate.confidence] >= ConfidenceRank[loadOptions.min_confidence]

\* The candidate of the record passes the identity exclusions of the latest load
PassesIdentityExclusions(rec, candidate) ==
    Ingested(rec, candidate, [loadOptions EXCEPT !.ambiguous_only = FALSE,
                                                 !.min_confidence = "unset"])

\* The candidates of the records that pass both, as occurrences in corpus order
RECURSIVE ExpectedOccurrences(_)
ExpectedOccurrences(recs) ==
    IF recs = << >> THEN << >>
    ELSE LET rec == Head(recs)
             Kept(c) == PassesIdentityExclusions(rec, c) /\ PassesFilters(c)
             kept == SelectSeq(rec.pii_candidates, Kept)
         IN  [k \in DOMAIN kept |-> [candidate |-> kept[k], file_name |-> rec.file_name,
                                     file_path |-> rec.file_path]]
             \o ExpectedOccurrences(Tail(recs))

\* C20: a candidate that passes the identity exclusions is ingested exactly
\* when it is not the case that ambiguous_only is set and its confidence is
\* high, and min_confidence is unset or its confidence is not below it in the
\* order low < medium < high; with ambiguous_only set and min_confidence = high
\* nothing is ingested.
C20_ConfidenceFilters ==
    loadCount >= 1 =>
        /\ occurrences = ExpectedOccurrences(records)
        /\ (loadOptions.ambiguous_only /\ loadOptions.min_confidence = "high")
               => occurrences = << >>

\* A load with ambiguous_only set and min_confidence = high of a record with a
\* high and a lower candidate, which ingested nothing
C20_Witness ==
    /\ loadCount >= 1
    /\ loadOptions.ambiguous_only
    /\ loadOptions.min_confidence = "high"
    /\ occurrences = << >>
    /\ \E r \in DOMAIN records :
          \E j, k \in DOMAIN records[r].pii_candidates :
              /\ records[r].pii_candidates[j].confidence = "high"
              /\ records[r].pii_candidates[k].confidence # "high"

----------------------------------------------------------------------------
(* Properties of the schema and the identity groups: C21 - C23 *)

\* The two labels occur together in the pii_types of a ValueGroup of the result
TogetherInValueGroup(result, typeA, typeB) ==
    \E i \in DOMAIN result.value_groups :
        /\ ArrayIncludes(result.value_groups[i].val.pii_types, typeA)
        /\ ArrayIncludes(result.value_groups[i].val.pii_types, typeB)

\* C21 as stated: in every result of resolve(), for both settings of
\* normalize_values, two type labels are related for the schema builder exactly
\* when they occur together in the pii_types of one ValueGroup of that result.
C21_SchemaEdgesFromOwnGroups ==
    Resolved =>
        \A typeA, typeB \in HeldTypes :
            typeA # typeB =>
                ( typeB \in RelatedTypes(occurrences, typeA)
                    <=> TogetherInValueGroup(resolved.result, typeA, typeB) )

\* What the code does for C21: labels are related exactly when they are
\* attached to values that are equal after trim and lowercase, whatever
\* normalize_values is
C21_SchemaEdgesFromNormalizedValues ==
    Resolved =>
        \A typeA, typeB \in HeldTypes :
            typeA # typeB =>
                ( typeB \in RelatedTypes(occurrences, typeA)
                    <=> \E i, j \in DOMAIN occurrences :
                           /\ occurrences[i].candidate.pii_type = typeA
                           /\ occurrences[j].candidate.pii_type = typeB
                           /\ ToLowerCase(Trim(occurrences[i].candidate.value))
                                = ToLowerCase(Trim(occurrences[j].candidate.value)) )

\* A result under normalize_values = false in which no ValueGroup has two
\* labels, and whose schema entry for T1 lists T2 and T3
C21_Divergence ==
    /\ Resolved
    /\ ~resolved.result.options.normalize_values
    /\ \A i \in DOMAIN resolved.result.value_groups :
          Len(resolved.result.value_groups[i].val.pii_types) = 1
    /\ SchemaNames(resolved.result, TypeLabel(1)) = {TypeLabel(2), TypeLabel(3)}

\* The two labels are attached to one value among the held occurrences, values
\* being compared after trim and lowercase as the schema builder compares them
ShareValue(typeA, typeB) ==
    \E i, j \in DOMAIN occurrences :
        /\ occurrences[i].candidate.pii_type = typeA
        /\ occurrences[j].candidate.pii_type = typeB
        /\ ToLowerCase(Trim(occurrences[i].candidate.value))
             = ToLowerCase(Trim(occurrences[j].candidate.value))

\* C22: for every type T with a TypeGroup, the merged type names of T's schema
\* entry contain only T itself and labels that share a value with T directly;
\* a label reached only through a chain of shared values (A with B on one
\* value, B with C on another, A and C on none) is not listed.
C22_OneHopSchema ==
    Resolved =>
        /\ { resolved.result.unified_schema[i].key : i \in DOMAIN resolved.result.unified_schema }
              = { resolved.result.type_groups[i].key : i \in DOMAIN resolved.result.type_groups }
        /\ \A i \in DOMAIN resolved.result.type_groups :
               LET type == resolved.result.type_groups[i].key
               IN  \A other \in SchemaNames(resolved.result, type) :
                       other = type \/ ShareValue(type, other)

\* A result for a chain: T1 and T2 share a value, T2 and T3 share another, T1
\* and T3 share none; the entry of T2 lists T1 and T3, the entry of T1 does not
\* list T3
C22_Witness ==
    /\ Resolved
    /\ ShareValue(TypeLabel(1), TypeLabel(2))
    /\ ShareValue(TypeLabel(2), TypeLabel(3))
    /\ ~ShareValue(TypeLabel(1), TypeLabel(3))
    /\ SchemaNames(resolved.result, TypeLabel(2)) = {TypeLabel(1), TypeLabel(3)}
    /\ TypeLabel(3) \notin SchemaNames(resolved.result, TypeLabel(1))
    /\ TypeLabel(1) \notin SchemaNames(resolved.result, TypeLabel(3))

\* The grouping key of a value under the options of the result
ResultKey(value) ==
    IF resolved.result.options.normalize_values THEN ToLowerCase(Trim(value)) ELSE value

\* The held records whose field f is non-empty and maps to the key, in order
RecordsOfKey(f, key) ==
    LET Joins(rec) == Truthy(rec[f]) /\ ResultKey(rec[f]) = key
    IN  SelectSeq(records, Joins)

\* C23: in every result of resolve(), for each of name, address and phone, there
\* is one IdentityGroup per key of a held record's non-empty field value (the
\* value itself, or its trim + lowercase form when normalize_values is set);
\* its files are the records with that key, in order, and its count is their
\* number; records whose field is empty or missing join no group of the field.
\* The groups are a function of the held records and of normalize_values alone.
C23_IdentityJoin ==
    Resolved =>
        \A f \in IdentityFields :
            LET groups == resolved.result.identity_groups[f]
                keys   == { ResultKey(records[r][f]) :
                               r \in { x \in DOMAIN records : Truthy(records[x][f]) } }
            IN  /\ { groups[i].key : i \in DOMAIN groups } = keys
                /\ Len(groups) = Cardinality(keys)
                /\ \A i \in DOMAIN groups :
                       LET joined == RecordsOfKey(f, groups[i].key)
                       IN  /\ groups[i].val.count = Len(groups[i].val.files)
                           /\ groups[i].val.count = Len(joined)
                           /\ groups[i].val.files =
                                  [k \in DOMAIN joined |->
                                      [file_name |-> joined[k].file_name,
                                       file_path |-> joined[k].file_path]]
                           /\ groups[i].val.value = joined[1][f]

\* A result after a load whose filters dropped every candidate: two records
\* whose names differ in case and spacing form one name group of count 2
C23_Witness ==
    /\ Resolved
    /\ loadOptions.ambiguous_only
    /\ occurrences = << >>
    /\ \E r \in DOMAIN records : records[r].pii_candidates # << >>
    /\ \E i \in DOMAIN resolved.result.identity_groups["name"] :
          LET group == resolved.result.identity_groups["name"][i].val
          IN  /\ group.count = 2
              /\ records[1].name # records[2].name

----------------------------------------------------------------------------
(* Properties of chunkFileContent: C24 *)

\* The arguments pass for a text of any length: chunkSize > 0 and
\* overlapPercentage in [0, 100)
ArgumentsInRange == chunkSize > 0 /\ overlapPercentage >= 0 /\ overlapPercentage < 100

\* chunkSize - floor(chunkSize * overlapPercentage / 100)
ClaimedStep == chunkSize - ((chunkSize * overlapPercentage) \div 100)

\* The shape of the returned chunks: none for the empty text, otherwise chunk k
\* starts at k * step and ends at min(start + chunkSize, L), the indices are
\* 0, 1, 2, ..., the last chunk ends at L and no other chunk does
ChunksAsClaimed ==
    /\ Len(content) = 0 => chunks = << >>
    /\ Len(content) > 0 =>
          /\ chunks # << >>
          /\ chunks[Len(chunks)].endIndex = Len(content)
          /\ \A k \in DOMAIN chunks :
                 /\ chunks[k].index = k - 1
                 /\ chunks[k].startIndex = (k - 1) * ClaimedStep
                 /\ chunks[k].endIndex = Min(chunks[k].startIndex + chunkSize, Len(content))
                 /\ k < Len(chunks) => chunks[k].endIndex # Len(content)

\* C24: for every text of length L >= 0, chunkSize > 0 and overlapPercentage in
\* [0, 100), the step is at least 1, every call of chunkFileContent returns,
\* and what it returns is no chunk when L = 0 and otherwise chunks k = 0, 1, ...
\* that start at k * step, end at min(start + chunkSize, L), the last one
\* ending at L and none following a chunk that ends at L.
C24_ChunkerTerminates ==
    /\ [](ArgumentsInRange => ClaimedStep >= 1)
    /\ [](chunkPc \in {"loop", "break", "returned"} => stepSize = ClaimedStep)
    /\ ((chunkPc = "called" /\ ArgumentsInRange) ~> (chunkPc = "returned"))
    /\ []((chunkPc = "returned" /\ ArgumentsInRange) => ChunksAsClaimed)

\* chunkFileContent returned exactly three chunks, the third starting at twice
\* the step and ending at L
C24_Witness ==
    /\ chunkPc = "returned"
    /\ Len(chunks) = 3
    /\ chunks[3].startIndex = 2 * ClaimedStep
    /\ chunks[3].endIndex = Len(content)
    /\ ClaimedStep < chunkSize

----------------------------------------------------------------------------
(* Properties of the workflow: C25 *)

\* Positions in docLog of the documents whose scan returned
ScannedDocs == { i \in DOMAIN docLog : ~docLog[i].threw }

\* The position in docLog of the k-th document whose scan returned
KthScanned(k) == CHOOSE i \in ScannedDocs : Cardinality({ j \in ScannedDocs : j <= i }) = k

RECURSIVE SumOfCandidates(_)
SumOfCandidates(files) ==
    IF files = << >> THEN 0
    ELSE Len(Head(files).pii_candidates) + SumOfCandidates(Tail(files))

\* C25: whatever documents fail to scan, the workflow goes on to every
\* remaining document, and what it returns lists exactly the documents whose
\* scan returned, in processing order, each with the candidates its scan
\* combined; total_files_processed is the length of that list and
\* total_pii_found the sum of the lengths of the listed pii_candidates.
C25_DocumentFailureIsolated ==
    /\ workflowPc = "looping" => Len(docLog) = docIdx
    /\ workflowPc = "returned" =>
          /\ Len(docLog) = numDocs
          /\ Len(workflowResult.files) = Cardinality(ScannedDocs)
          /\ \A k \in DOMAIN workflowResult.files :
                 /\ workflowResult.files[k].file_path = DocPath(KthScanned(k) - 1)
                 /\ workflowResult.files[k].pii_candidates =
                        docLog[KthScanned(k)].piiScanResult.combined_pii
          /\ workflowResult.total_files_processed = Len(workflowResult.files)
          /\ workflowResult.total_pii_found = SumOfCandidates(workflowResult.files)

\* The first of two documents failed to scan, the second was scanned and
\* reported two candidates
C25_Witness ==
    /\ workflowPc = "returned"
    /\ numDocs = 2
    /\ docLog[1].threw
    /\ ~docLog[2].threw
    /\ Len(workflowResult.files) = 1
    /\ workflowResult.files[1].file_path = DocPath(1)
    /\ workflowResult.total_pii_found = 2

----------------------------------------------------------------------------
(* Properties of the deduplicator: C26, C27 *)

\* The (lowercase value, pii_type) pairs among the candidates that arrived
ArrivedPairs ==
    LET arrived == Arrivals(scanResult.results)
    IN  { <<ToLowerCase(arrived[i].value), arrived[i].pii_type>> : i \in DOMAIN arrived }

\* C26: two candidates of one document are merged into one deduplicated entry
\* only if they have the same lowercase value and the same pii_type: the
\* scan returns one entry for each (lowercase value, pii_type) pair that arrived.
C26_DedupKeysDoNotCollide ==
    scanPc \in {"returned", "recorded"} =>
        /\ Len(scanResult.combined_pii) = Cardinality(ArrivedPairs)
        /\ \A pair \in ArrivedPairs :
               \E k \in DOMAIN scanResult.combined_pii :
                   /\ ToLowerCase(scanResult.combined_pii[k].value) = pair[1]
                   /\ scanResult.combined_pii[k].pii_type = pair[2]

\* Value 'a_b' of type 'c' and value 'a' of type 'b_c' both arrived and the
\* scan returned a single entry for the two
C26_Divergence ==
    /\ scanPc = "returned"
    /\ <<<<"a","_","b">>, <<"c">>>> \in ArrivedPairs
    /\ <<<<"a">>, <<"b","_","c">>>> \in ArrivedPairs
    /\ Len(scanResult.combined_pii) = 1

\* C26 on candidates whose values and labels hold no "_": there the scan
\* returns one entry for each (lowercase value, pii_type) pair that arrived
C26_DistinctWithoutSeparator ==
    (scanPc \in {"returned", "recorded"} /\ family = "dedup") =>
        /\ Len(scanResult.combined_pii) = Cardinality(ArrivedPairs)
        /\ \A pair \in ArrivedPairs :
               \E k \in DOMAIN scanResult.combined_pii :
                   /\ ToLowerCase(scanResult.combined_pii[k].value) = pair[1]
                   /\ scanResult.combined_pii[k].pii_type = pair[2]

\* The candidates that arrived for the dedup key `key`, in arrival order
ArrivedFor(key) ==
    LET Same(cand) == DedupKey(cand) = key
    IN  SelectSeq(Arrivals(scanResult.results), Same)

BestRank(cands) ==
    IF \E i \in DOMAIN cands : cands[i].confidence = "high" THEN ConfidenceRank.high
    ELSE IF \E i \in DOMAIN cands : cands[i].confidence = "medium" THEN ConfidenceRank.medium
    ELSE ConfidenceRank.low

\* C27 as stated: for every dedup key, the confidence of the retained candidate
\* is the highest confidence reported for the key in any successfully extracted
\* chunk, also when no candidate for the key is high.
C27_BestConfidenceRetained ==
    ScanDone =>
        \A k \in DOMAIN scanResult.combined_pii :
            LET kept == scanResult.combined_pii[k]
            IN  ConfidenceRank[kept.confidence] = BestRank(ArrivedFor(DedupKey(kept)))

\* C27: for every dedup key, the retained candidate is the last high candidate
\* reported for the key when one was reported, and otherwise the first
\* candidate reported for the key, whatever the confidence of the later ones.
C27_FirstUnlessHighRetained ==
    ScanDone =>
        \A k \in DOMAIN scanResult.combined_pii :
            LET kept   == scanResult.combined_pii[k]
                forKey == ArrivedFor(DedupKey(kept))
                highs  == { i \in DOMAIN forKey : forKey[i].confidence = "high" }
            IN  /\ forKey # << >>
                /\ kept = IF \A i \in DOMAIN forKey : i > 1 => i \notin highs
                          THEN forKey[1]
                          ELSE forKey[CHOOSE i \in highs : \A j \in highs : j <= i]

\* A scan that returned after a low candidate and then a medium one arrived for
\* a key for which no high candidate arrived: the low one is retained
C27_Witness ==
    /\ scanPc = "returned"
    /\ \E k \in DOMAIN scanResult.combined_pii :
           LET forKey == ArrivedFor(DedupKey(scanResult.combined_pii[k]))
           IN  /\ Len(forKey) >= 2
               /\ forKey[1].confidence = "low"
               /\ forKey[2].confidence = "medium"
               /\ \A i \in DOMAIN forKey : forKey[i].confidence # "high"
               /\ scanResult.combined_pii[k].confidence = "low"

----------------------------------------------------------------------------
(* Properties of the groups: C28 - C30 *)

\* How many entries of the list `detail` are the occurrence `o`
TimesIn(detail, o) ==
    LET IsThat(x) == x = o
    IN  Len(SelectSeq(detail, IsThat))

RECURSIVE SumOfOccurrences(_)
SumOfOccurrences(groups) ==
    IF groups = << >> THEN 0
    ELSE Head(groups).val.occurrences + SumOfOccurrences(Tail(groups))

\* The groups of `groups` partition the held occurrences, and each group's
\* counters agree with its occurrence list
PartitionsOccurrences(groups) ==
    /\ \A n \in DOMAIN occurrences :
           LET holders == { i \in DOMAIN groups :
                                TimesIn(groups[i].val.occurrences_detail, occurrences[n]) > 0 }
           IN  /\ Cardinality(holders) = 1
               /\ \A i \in holders :
                      TimesIn(groups[i].val.occurrences_detail, occurrences[n])
                          = TimesIn(occurrences, occurrences[n])
    /\ \A i \in DOMAIN groups :
           LET group == groups[i].val
           IN  /\ group.occurrences = Len(group.occurrences_detail)
               /\ group.occurrences = group.confidence_breakdown.high
                                        + group.confidence_breakdown.medium
                                        + group.confidence_breakdown.low
               /\ \A k \in DOMAIN group.occurrences_detail :
                      TimesIn(occurrences, group.occurrences_detail[k]) > 0
    /\ SumOfOccurrences(groups) = Len(occurrences)

\* C28: in every result of resolve(), each ingested occurrence is in the
\* occurrences_detail of exactly one ValueGroup and of exactly one TypeGroup;
\* every group's occurrences equals the length of its occurrences_detail and
\* the sum of its confidence_breakdown; and the occurrences of the ValueGroups,
\* and of the TypeGroups, sum to the number of ingested occurrences.
C28_GroupsPartitionOccurrences ==
    Resolved =>
        /\ PartitionsOccurrences(resolved.result.value_groups)
        /\ PartitionsOccurrences(resolved.result.type_groups)

\* A result with at least two ValueGroups and two TypeGroups, one ValueGroup
\* holding two occurrences of different types
C28_Witness ==
    /\ Resolved
    /\ Len(resolved.result.value_groups) >= 2
    /\ Len(resolved.result.type_groups) >= 2
    /\ Len(occurrences) >= 3
    /\ \E i \in DOMAIN resolved.result.value_groups :
           LET group == resolved.result.value_groups[i].val
           IN  /\ group.occurrences = 2
               /\ Len(group.pii_types) = 2

\* The ValueGroups of a result whose pii_types hold `type`
ValueGroupsOfType(result, type) ==
    { i \in DOMAIN result.value_groups :
          \E k \in DOMAIN result.value_groups[i].val.pii_types :
              result.value_groups[i].val.pii_types[k] = type }

\* The grouping key of a value under the options of a result
GroupingKey(value, result) ==
    IF result.options.normalize_values THEN ToLowerCase(Trim(value)) ELSE value

\* C29: in every result of resolve(), no two entries of a TypeGroup's values
\* have the same grouping key, and unique_value_count is the number of
\* ValueGroups of the result whose pii_types contain the group's type; this
\* for every value string, the empty string included.
C29_TypeGroupValuesDistinct ==
    Resolved =>
        \A i \in DOMAIN resolved.result.type_groups :
            LET group == resolved.result.type_groups[i].val
            IN  /\ \A a, b \in DOMAIN group.values :
                       a # b => GroupingKey(group.values[a], resolved.result)
                                    # GroupingKey(group.values[b], resolved.result)
                /\ group.unique_value_count
                       = Cardinality(ValueGroupsOfType(resolved.result, group.pii_type))

\* C29 for the values other than the empty string: a TypeGroup none of whose
\* values is empty has values of distinct grouping keys, as many as there are
\* ValueGroups holding its type
C29_DistinctWhenNoneEmpty ==
    Resolved =>
        \A i \in DOMAIN resolved.result.type_groups :
            LET group == resolved.result.type_groups[i].val
            IN  (\A a \in DOMAIN group.values : group.values[a] # << >>) =>
                    /\ \A a, b \in DOMAIN group.values :
                           a # b => GroupingKey(group.values[a], resolved.result)
                                        # GroupingKey(group.values[b], resolved.result)
                    /\ group.unique_value_count
                           = Cardinality(ValueGroupsOfType(resolved.result, group.pii_type))

\* A result whose only TypeGroup lists the empty string twice and counts two
\* unique values, while a single ValueGroup holds its type
C29_Divergence ==
    /\ Resolved
    /\ Len(occurrences) = 2
    /\ \E i \in DOMAIN resolved.result.type_groups :
           LET group == resolved.result.type_groups[i].val
           IN  /\ group.values = << << >>, << >> >>
               /\ group.unique_value_count = 2
               /\ Cardinality(ValueGroupsOfType(resolved.result, group.pii_type)) = 1

\* A group of the result holds an occurrence of confidence high
HoldsHigh(groups) ==
    \E i \in DOMAIN groups :
        \E k \in DOMAIN groups[i].val.occurrences_detail :
            groups[i].val.occurrences_detail[k].candidate.confidence = "high"

\* C30: in every result of resolve(), whatever options the load and resolve
\* were given, summary.total_ambiguous_candidates is the number of held
\* occurrences of confidence medium or low, the length of
\* getAmbiguousCandidates(); and a result of resolve with ambiguous_only = true
\* has no ValueGroup or TypeGroup holding a high-confidence occurrence.
C30_CountsAmbiguousCandidates ==
    Resolved =>
        /\ resolved.result.summary.total_ambiguous_candidates
               = Len(GetAmbiguousCandidates(occurrences))
        /\ resolved.result.options.ambiguous_only =>
               /\ ~HoldsHigh(resolved.result.value_groups)
               /\ ~HoldsHigh(resolved.result.type_groups)

\* C30 after a load that was itself given ambiguous_only = true: no high
\* occurrence is held, the count is the number of medium and low occurrences
\* and no group holds a high one
C30_AfterAmbiguousOnlyLoad ==
    (Resolved /\ loadOptions.ambiguous_only) =>
        /\ resolved.result.summary.total_ambiguous_candidates
               = Len(GetAmbiguousCandidates(occurrences))
        /\ ~HoldsHigh(resolved.result.value_groups)
        /\ ~HoldsHigh(resolved.result.type_groups)

\* After a load without filters, a result of resolve with ambiguous_only = true
\* that counts more candidates than there are medium and low occurrences and
\* has a ValueGroup and a TypeGroup holding a high occurrence
C30_Divergence ==
    /\ Resolved
    /\ ~loadOptions.ambiguous_only
    /\ resolved.result.options.ambiguous_only
    /\ resolved.result.summary.total_ambiguous_candidates
           > Len(GetAmbiguousCandidates(occurrences))
    /\ HoldsHigh(resolved.result.value_groups)
    /\ HoldsHigh(resolved.result.type_groups)

====
